---- MODULE Spec2Model ----
(***************************************************************************)
(* IdentityHub backend: the OAuth connect handshake of the Jira controller *)
(* (MongoDB revision) over the oauth_states ledger and the user            *)
(* collection.  Every request is a process whose steps are the awaited     *)
(* storage / HTTP operations of its handler; a storage operation is one    *)
(* atomic step, the gaps between awaits are where other requests run.  The *)
(* handler's code up to its first storage operation touches nothing shared *)
(* and is part of the step of that operation.                              *)
(***************************************************************************)
EXTENDS Integers, FiniteSets, Sequences, TLC

\* ---------------------------------------------------------------- bounds
\* request slots that may be in flight at once are Procs; MaxRequests caps
\* the number of requests ever started, MaxTicks / TickMs drive the clock.
MaxRequests == 3
MaxTicks == 2
TickMs == 150000

Users == {"u1", "u2"}
Procs == {"p1", "p2"}
ProcOrder == [ p \in Procs |-> IF p = "p1" THEN 1 ELSE 2 ]

\* crypto.randomBytes(32): a value never produced before; 0 stands for any
\* value the server never generated (a tampered / guessed state).
States == 1..MaxRequests
Tampered == 0

None == "none"

\* an absent record-valued field (undefined / null)
Nil == [ nil |-> TRUE ]

\* what the Atlassian token endpoint may answer to a code exchange
TokenResponses ==
    { [access_token |-> "AT1", refresh_token |-> "RT1", expires_in |-> 3600] }

\* what accessible-resources may answer: an HTTP error, an empty list, or a
\* list whose first entry is the site
SiteResponses ==
    { [ status |-> "error", data |-> <<>> ],
      [ status |-> "ok", data |-> <<>> ],
      [ status |-> "ok", data |-> << [id |-> "cloud1", url |-> "https://site1"] >> ] }

VARIABLES
    oauth_states,   \* the oauth_states collection: set of documents
    user,           \* the user collection: userId -> document (config part)
    now,            \* Date.now(), in ms
    req,            \* request slot -> the handler's locals and position
    nextState,      \* how many random states were generated so far
    authUrls,       \* <<userId, state>> of every authUrl sent to a client
    started,        \* number of requests started
    accepted,       \* history: <<userId, state>> -> number of calls that returned true
    removed,        \* history: <<userId, state>> of every document ever deleted
    superseded,     \* history: <<userId, s1, s2>>: createState(userId, s2) ran after createState(userId, s1) had returned
    current,        \* history: userId -> what the last createState step for userId inserted, or Nil
    refreshLog,     \* the token endpoint: every refresh it answered, in order
    apikeys,        \* the apikeys collection: set of documents
    issued,         \* history: what every generateApiKey call returned
    accounts,       \* the user collection, account part: set of documents
    log             \* what console.log / the logger service were handed

\* the OAuth ledger and its history; what the token endpoint has seen
ledgerVars == << oauth_states, nextState, authUrls, accepted, removed,
                 superseded, current >>
tokenVars == << refreshLog >>
keyVars == << apikeys, issued >>
siteVars == << accounts, log >>

vars == << oauth_states, user, now, req, nextState, authUrls, started,
           accepted, removed, superseded, current, tokenVars, keyVars,
           siteVars >>

Keys == Users \X (States \cup {Tampered})

\* ------------------------------------------------------------ jira.service
\* config.secret1, the secret the module-wide Cryptr instance is built with
secret1 == "secret1"

\* a secret the process ran with before config.secret1 was changed
otherSecret == "secret0"

\* cryptr is aes-256-gcm: the authentication tag binds the bytes of the
\* ciphertext to the key derived from the secret
Tag(secret, body) == << secret, body >>

\* new Cryptr(secret).encrypt(plain); the random salt and iv are left out
Cryptr(secret, plain) == << "enc", plain, Tag(secret, plain) >>

\* cryptr.encrypt(plain)
Encrypt(plain) == Cryptr(secret1, plain)

\* the message of the error decipher.final() throws when the tag does not
\* authenticate the bytes under the key
DecryptError == "Unsupported state or unable to authenticate data"

\* a thrown error, as the caller's catch block receives it
Throw(err) == [ kind |-> "throw", err |-> err ]

\* mutant: the bytes are returned without checking the tag
MutDecryptUnauthenticated(cipher) == cipher[2]

\* cryptr.decrypt(cipher): the plain text, or DecryptError for a throw
Decrypt(cipher) ==
    IF cipher[3] = Tag(secret1, cipher[2]) THEN cipher[2] ELSE DecryptError

\* mutant: expires_in is taken for milliseconds
MutEncryptTokensNoScale(tokens, t) ==
    [ accessToken  |-> Encrypt(tokens.access_token),
      refreshToken |-> Encrypt(tokens.refresh_token),
      expiresAt    |-> t + tokens.expires_in ]

encryptTokens(tokens, t) ==
    [ accessToken  |-> Encrypt(tokens.access_token),
      refreshToken |-> Encrypt(tokens.refresh_token),
      expiresAt    |-> t + (tokens.expires_in * 1000) ]

\* the object literal is built field by field: the first decrypt that throws
\* ends the call
decryptTokens(encryptedTokens) ==
    LET accessToken == Decrypt(encryptedTokens.accessToken)
        refreshToken == Decrypt(encryptedTokens.refreshToken)
    IN  IF accessToken = DecryptError \/ refreshToken = DecryptError
        THEN Throw(DecryptError)
        ELSE [ accessToken  |-> accessToken,
               refreshToken |-> refreshToken,
               expiresAt    |-> encryptedTokens.expiresAt ]

\* ------------------------------------------------------ oauth-state.service
\* mutant: the previous states of the user are not deleted
MutDeleteNone(coll, userId) == coll

\* createState, first storage call: collection.deleteMany({ userId })
deleteMany(coll, userId) == { d \in coll : d.userId # userId }

\* mutant: the document is stored without its lifetime (expiresAt = createdAt)
MutInsertNoLifetime(coll, userId, state, expiresAt, createdAt) ==
    coll \cup { [ userId |-> userId, state |-> state,
                  expiresAt |-> createdAt, createdAt |-> createdAt ] }

\* createState, second storage call: collection.insertOne({...})
insertOne(coll, userId, state, expiresAt, createdAt) ==
    coll \cup { [ userId |-> userId, state |-> state,
                  expiresAt |-> expiresAt, createdAt |-> createdAt ] }

\* mutant: the filter without the expiry condition
MutMatchingNoExpiry(coll, userId, state, t) ==
    { d \in coll : d.userId = userId /\ d.state = state }

\* mutant: the filter without the userId condition
MutMatchingNoUser(coll, userId, state, t) ==
    { d \in coll : d.state = state /\ d.expiresAt > t }

\* the filter of findOneAndDelete in validateAndDeleteState
Matching(coll, userId, state, t) ==
    { d \in coll : d.userId = userId /\ d.state = state /\ d.expiresAt > t }

\* mutant: findOne, the found document is left in place
MutFindOnly(coll, d) == coll

\* findOneAndDelete: the collection after deleting the found document d
findOneAndDelete(coll, d) == coll \ {d}

\* ------------------------------------------------------------ user.service
NoConfig == [ jira |-> Nil ]

\* mutant: the update writes the access token alone into the stored config
MutUpdateAccessTokenOnly(coll, userId, doc) ==
    IF doc.config = Nil THEN coll
    ELSE IF /\ doc.config.jira # Nil
            /\ coll[userId].config # Nil
            /\ coll[userId].config.jira # Nil
         THEN [ coll EXCEPT ![userId].config.jira.accessToken =
                                doc.config.jira.accessToken ]
         ELSE [ coll EXCEPT ![userId].config = doc.config ]

\* mutant: a config without tracker part counts as no config and is not written
MutUpdateSkipsEmptyConfig(coll, userId, doc) ==
    IF doc.config # Nil /\ doc.config.jira # Nil
    THEN [ coll EXCEPT ![userId].config = doc.config ]
    ELSE coll

\* update(user): $set of the config read before (when truthy)
update(coll, userId, doc) ==
    IF doc.config # Nil THEN [ coll EXCEPT ![userId].config = doc.config ]
    ELSE coll

\* ------------------------------------------------------------------- Init
Idle == [ op |-> "idle", pc |-> "done", user |-> None, state |-> Tampered,
          code |-> None, expiresAt |-> 0, prior |-> {}, isValidState |-> FALSE,
          vArgs |-> <<>>, tokens |-> Nil, site |-> Nil,
          encrypted |-> Nil, updatedUser |-> Nil, res |-> Nil,
          jiraConfig |-> Nil, currentAccessToken |-> None,
          refreshCalls |-> << >>, trackerCalls |-> << >>,
          apiKey |-> << >>, apiKeyDoc |-> Nil, keyId |-> 0, err |-> None,
          authHeader |-> << >>, body |-> Nil, apiKeyAuth |-> Nil,
          issueData |-> Nil, email |-> None, name |-> None, password |-> None,
          token |-> Nil ]

Init ==
    /\ oauth_states = {}
    /\ user = [ u \in Users |-> [ config |-> Nil ] ]
    /\ now = 0
    /\ req = [ p \in Procs |-> Idle ]
    /\ nextState = 0
    /\ authUrls = {}
    /\ started = 0
    /\ accepted = [ k \in Keys |-> 0 ]
    /\ removed = {}
    /\ superseded = {}
    /\ current = [ u \in Users |-> Nil ]
    /\ refreshLog = << >>
    /\ apikeys = {}
    /\ issued = {}
    /\ accounts = {}
    /\ log = {}

Redirect(to, message) == [ kind |-> "redirect", to |-> to, message |-> message ]

Gone(before, after) == { << d.userId, d.state >> : d \in before \ after }

ErrorUrl(message) == Redirect("/jira/error", message)

\* a new request takes the first free slot, while the request budget lasts
\* (slots are anonymous: which free slot serves a request changes nothing)
CanStart(p) ==
    /\ req[p].pc = "done"
    /\ started < MaxRequests
    /\ \A q \in Procs : req[q].pc = "done" => ProcOrder[p] <= ProcOrder[q]

\* the handler returned: its locals are gone, the response stays visible
Finish(r, response) ==
    [ r EXCEPT !.pc = "done", !.res = response, !.tokens = Nil, !.site = Nil,
               !.encrypted = Nil, !.updatedUser = Nil, !.prior = {},
               !.expiresAt = 0, !.jiraConfig = Nil, !.currentAccessToken = None,
               !.apiKeyDoc = Nil ]

History(before, after) == removed \cup Gone(before, after)

\* ------------------------------------------- jira.controller: initiateOAuth
\* request of user u arrives; state = crypto.randomBytes(32); createState
\* computes expiresAt = Date.now() + expirationMinutes * 60 * 1000
\* (expirationMinutes = 5) and runs await collection.deleteMany({ userId })
initiateOAuth(p, u) ==
    /\ CanStart(p)
    /\ nextState < MaxRequests
    /\ nextState' = nextState + 1
    /\ started' = started + 1
    /\ oauth_states' = deleteMany(oauth_states, u)
    /\ removed' = History(oauth_states, oauth_states')
    /\ current' = [ current EXCEPT ![u] = Nil ]
    /\ req' = [ req EXCEPT ![p] =
                  [ Idle EXCEPT !.op = "initiateOAuth", !.pc = "insertOne",
                                !.user = u, !.state = nextState + 1,
                                !.expiresAt = now + (5 * 60 * 1000),
                                !.prior = { k[2] : k \in { a \in authUrls : a[1] = u } } ] ]
    /\ UNCHANGED << user, now, authUrls, accepted, superseded, tokenVars, keyVars, siteVars >>

\* await collection.insertOne({ userId, state, expiresAt, createdAt });
\* createState returns and initiateOAuth answers res.json({ authUrl })
createStateInsert(p) ==
    /\ req[p].pc = "insertOne"
    /\ oauth_states' = insertOne(oauth_states, req[p].user, req[p].state,
                                 req[p].expiresAt, now)
    /\ current' = [ current EXCEPT ![req[p].user] =
                      [ state |-> req[p].state, expiresAt |-> req[p].expiresAt ] ]
    /\ authUrls' = authUrls \cup { << req[p].user, req[p].state >> }
    /\ req' = [ req EXCEPT ![p] =
                  Finish(@, [ kind |-> "json", authUrl |-> req[p].state ]) ]
    /\ superseded' = superseded \cup
                        { << req[p].user, s1, req[p].state >> : s1 \in req[p].prior }
    /\ UNCHANGED << user, now, nextState, started, accepted, removed, tokenVars, keyVars, siteVars >>

\* -------------------------------------- jira.controller: handleOAuthCallback
\* states a client can present: one it received in an authUrl, or a made-up one
Presentable == { k[2] : k \in authUrls } \cup {Tampered}

\* the arguments handleOAuthCallback passes to validateAndDeleteState
ValidateArgs(r) == << r.user, r.state >>

\* mutant: the early return on an invalid state is missing
MutOnValidatedNoReturn(r, a, isValidState) ==
    [ r EXCEPT !.isValidState = isValidState, !.vArgs = a,
               !.pc = "exchangeCodeForTokens" ]

\* mutant: the redirect tells a made-up state from one that has run out
MutOnValidatedTellsCause(r, a, isValidState) ==
    IF ~isValidState
    THEN Finish([ r EXCEPT !.isValidState = FALSE, !.vArgs = a ],
                ErrorUrl(IF a[2] = Tampered THEN "Invalid state"
                         ELSE "Session expired. Please try connecting again."))
    ELSE [ r EXCEPT !.isValidState = TRUE, !.vArgs = a,
                    !.pc = "exchangeCodeForTokens" ]

\* if (!isValidState) return res.redirect(error); otherwise the handler goes
\* on to jiraService.exchangeCodeForTokens(code)
OnValidated(r, a, isValidState) ==
    IF ~isValidState
    THEN Finish([ r EXCEPT !.isValidState = FALSE, !.vArgs = a ],
                ErrorUrl("Invalid or expired session. Please try connecting again."))
    ELSE [ r EXCEPT !.isValidState = TRUE, !.vArgs = a,
                    !.pc = "exchangeCodeForTokens" ]

\* isValidState = await oauthStateService.validateAndDeleteState(userId, state)
\* called by the request r in slot p
validateAndDeleteState(p, r) ==
    LET a == ValidateArgs(r)
        m == Matching(oauth_states, a[1], a[2], now)
    IN /\ IF m # {}
          THEN /\ \E d \in m : oauth_states' = findOneAndDelete(oauth_states, d)
               /\ accepted' = [ accepted EXCEPT ![a] = @ + 1 ]
               /\ req' = [ req EXCEPT ![p] = OnValidated(r, a, TRUE) ]
          ELSE /\ oauth_states' = oauth_states
               /\ accepted' = accepted
               /\ req' = [ req EXCEPT ![p] = OnValidated(r, a, FALSE) ]
       /\ removed' = History(oauth_states, oauth_states')

\* mutant: a callback without a code drops the states stored for the user
MutCallbackCodelessConsumes(p, u, code, state) ==
    /\ CanStart(p)
    /\ started' = started + 1
    /\ LET r == [ Idle EXCEPT !.op = "handleOAuthCallback", !.user = u,
                              !.state = state, !.code = code ]
       IN IF code = None
          THEN /\ req' = [ req EXCEPT ![p] =
                             Finish(r, ErrorUrl("Authorization code missing")) ]
               /\ oauth_states' = { d \in oauth_states : d.userId # u }
               /\ removed' = History(oauth_states, oauth_states')
               /\ UNCHANGED << accepted, siteVars >>
          ELSE validateAndDeleteState(p, r)
    /\ UNCHANGED << user, now, nextState, authUrls, current, superseded, tokenVars, keyVars, siteVars >>

\* request arrives with req.query = { code, state } for the logged-in user u:
\* without a code it is answered at once, otherwise the state is validated
handleOAuthCallback(p, u, code, state) ==
    /\ CanStart(p)
    /\ started' = started + 1
    /\ LET r == [ Idle EXCEPT !.op = "handleOAuthCallback", !.user = u,
                              !.state = state, !.code = code ]
       IN IF code = None
          THEN /\ req' = [ req EXCEPT ![p] =
                             Finish(r, ErrorUrl("Authorization code missing")) ]
               /\ UNCHANGED << oauth_states, accepted, removed, siteVars >>
          ELSE validateAndDeleteState(p, r)
    /\ UNCHANGED << user, now, nextState, authUrls, current, superseded, tokenVars, keyVars, siteVars >>

\* mutant: the tokens are written to the user document as soon as exchanged,
\* before the workspace is resolved
MutExchangeStoresTokens(p) ==
    /\ req[p].pc = "exchangeCodeForTokens"
    /\ \/ \E t \in TokenResponses :
            /\ req' = [ req EXCEPT ![p].tokens = t, ![p].pc = "getCloudId" ]
            /\ user' = [ user EXCEPT ![req[p].user].config =
                           [ jira |-> encryptTokens(t, now) ] ]
       \/ /\ req' = [ req EXCEPT ![p] =
                        Finish(@, ErrorUrl("Failed to exchange authorization code")) ]
          /\ user' = user
    /\ UNCHANGED << oauth_states, now, nextState, authUrls, started,
                    accepted, removed, superseded, current, tokenVars, keyVars, siteVars >>

\* tokens = await jiraService.exchangeCodeForTokens(code): the token endpoint
\* answers with a token set, or the call throws
exchangeCodeForTokens(p) ==
    /\ req[p].pc = "exchangeCodeForTokens"
    /\ \/ \E t \in TokenResponses :
            req' = [ req EXCEPT ![p].tokens = t, ![p].pc = "getCloudId" ]
       \/ req' = [ req EXCEPT ![p] =
                     Finish(@, ErrorUrl("Failed to exchange authorization code")) ]
    /\ UNCHANGED << oauth_states, user, now, nextState, authUrls, started,
                    accepted, removed, current, superseded, tokenVars, keyVars, siteVars >>

\* mutant: when the workspace cannot be resolved the state is stored again,
\* so that the user may retry the callback
MutGetCloudIdRestoresState(p) ==
    /\ req[p].pc = "getCloudId"
    /\ \E r \in SiteResponses :
         IF r.status = "error" \/ Len(r.data) = 0
         THEN /\ req' = [ req EXCEPT ![p] =
                            Finish(@, ErrorUrl("Failed to get Jira cloud ID")) ]
              /\ oauth_states' = insertOne(oauth_states, req[p].user, req[p].state,
                                           now + (5 * 60 * 1000), now)
         ELSE /\ req' = [ req EXCEPT ![p].pc = "getById",
                            ![p].site = [ cloudId |-> r.data[1].id, siteUrl |-> r.data[1].url ],
                            ![p].encrypted = encryptTokens(req[p].tokens, now) ]
              /\ oauth_states' = oauth_states
    /\ UNCHANGED << user, now, nextState, authUrls, started,
                    accepted, removed, current, superseded, tokenVars, keyVars, siteVars >>

\* { cloudId, siteUrl } = await jiraService.getCloudId(tokens.access_token),
\* then encryptedTokens = jiraService.encryptTokens(tokens)
getCloudId(p) ==
    /\ req[p].pc = "getCloudId"
    /\ \E r \in SiteResponses :
         IF r.status = "error" \/ Len(r.data) = 0
         THEN req' = [ req EXCEPT ![p] =
                         Finish(@, ErrorUrl("Failed to get Jira cloud ID")) ]
         ELSE req' = [ req EXCEPT ![p].pc = "getById",
                         ![p].site = [ cloudId |-> r.data[1].id, siteUrl |-> r.data[1].url ],
                         ![p].encrypted = encryptTokens(req[p].tokens, now) ]
    /\ UNCHANGED << oauth_states, user, now, nextState, authUrls, started,
                    accepted, removed, current, superseded, tokenVars, keyVars, siteVars >>

\* updatedUser.config.jira = { cloudId, siteUrl, ...encryptedTokens, connectedAt }
JiraConfig(site, encrypted, connectedAt) ==
    [ cloudId |-> site.cloudId, siteUrl |-> site.siteUrl,
      accessToken |-> encrypted.accessToken,
      refreshToken |-> encrypted.refreshToken,
      expiresAt |-> encrypted.expiresAt, connectedAt |-> connectedAt ]

\* updatedUser = await userService.getById(loggedinUser._id);
\* updatedUser.config = updatedUser.config || {}; updatedUser.config.jira = ...
getById(p) ==
    /\ req[p].pc = "getById"
    /\ LET doc == user[req[p].user]
           cfg == IF doc.config = Nil THEN NoConfig ELSE doc.config
       IN req' = [ req EXCEPT ![p].pc = "update",
                     ![p].updatedUser =
                        [ doc EXCEPT !.config =
                            [ cfg EXCEPT !.jira =
                                JiraConfig(req[p].site, req[p].encrypted, now) ] ] ]
    /\ UNCHANGED << oauth_states, user, now, nextState, authUrls, started,
                    accepted, removed, current, superseded, tokenVars, keyVars, siteVars >>

\* await userService.update(updatedUser); res.redirect(.../jira/success)
updateUser(p) ==
    /\ req[p].pc = "update"
    /\ user' = update(user, req[p].user, req[p].updatedUser)
    /\ req' = [ req EXCEPT ![p] = Finish(@, Redirect("/jira/success", "")) ]
    /\ UNCHANGED << oauth_states, now, nextState, authUrls, started, accepted, removed, current, superseded, tokenVars, keyVars, siteVars >>

\* ------------------------------------------------------------- environment
\* time passes
Tick ==
    /\ now + TickMs <= MaxTicks * TickMs
    /\ now' = now + TickMs
    /\ UNCHANGED << oauth_states, user, req, nextState, authUrls, started,
                    accepted, removed, current, superseded, tokenVars, keyVars, siteVars >>

\* mutant: the TTL index is on createdAt with expireAfterSeconds: 3600
MutTtlOnCreatedAt ==
    /\ \E d \in oauth_states :
         /\ d.createdAt + (3600 * 1000) <= now
         /\ oauth_states' = oauth_states \ {d}
    /\ removed' = History(oauth_states, oauth_states')
    /\ UNCHANGED << user, now, req, nextState, authUrls, started, accepted, current, superseded, tokenVars, keyVars, siteVars >>

\* MongoDB's TTL monitor on the index { expiresAt: 1 }, expireAfterSeconds: 0,
\* deletes a document whose expiresAt has passed
ttlExpire ==
    /\ \E d \in oauth_states :
         /\ d.expiresAt <= now
         /\ oauth_states' = oauth_states \ {d}
    /\ removed' = History(oauth_states, oauth_states')
    /\ UNCHANGED << user, now, req, nextState, authUrls, started, accepted, current, superseded, tokenVars, keyVars, siteVars >>

Next ==
    \/ \E p \in Procs, u \in Users : initiateOAuth(p, u)
    \/ \E p \in Procs : createStateInsert(p)
    \/ \E p \in Procs, u \in Users, code \in {None, "code"}, s \in Presentable :
          handleOAuthCallback(p, u, code, s)
    \/ \E p \in Procs : exchangeCodeForTokens(p)
    \/ \E p \in Procs : getCloudId(p)
    \/ \E p \in Procs : getById(p)
    \/ \E p \in Procs : updateUser(p)
    \/ Tick
    \/ ttlExpire

Spec == Init /\ [][Next]_vars

\* the TTL monitor is a background thread of the database that runs every 60
\* seconds whatever the server does: a sweep that stays possible happens
\* the fair specification follows FairRequests requests
FairRequests == 2

\* the specification of the API-key route follows this many requests
NhiRequests == 2

FairNext ==
    \/ \E p \in Procs, u \in Users : started < FairRequests /\ initiateOAuth(p, u)
    \/ \E p \in Procs : createStateInsert(p)
    \/ \E p \in Procs, u \in Users, code \in {None, "code"}, s \in Presentable :
          started < FairRequests /\ handleOAuthCallback(p, u, code, s)
    \/ \E p \in Procs : exchangeCodeForTokens(p)
    \/ \E p \in Procs : getCloudId(p)
    \/ \E p \in Procs : getById(p)
    \/ \E p \in Procs : updateUser(p)
    \/ Tick
    \/ ttlExpire

FairSpec == Init /\ [][FairNext]_vars /\ WF_vars(ttlExpire)

\* ------------------------------------------------ token lifecycle: getProjects
\* the n-th answer of the token endpoint to a refresh: a new token pair
RefreshResponse(n) ==
    [ access_token |-> "AT" \o ToString(n + 1),
      refresh_token |-> "RT" \o ToString(n + 1),
      expires_in |-> 3600 ]

\* mutant: a token that expires this very millisecond still counts as valid
MutExpiredStrictly(t, expiresAt) == t > expiresAt

\* if (Date.now() >= expiresAt)
IsExpired(t, expiresAt) == t >= expiresAt

\* user.config.jira = { ...jiraConfig, ...encrypted }
Refreshed(jiraConfig, encrypted) ==
    [ jiraConfig EXCEPT !.accessToken = encrypted.accessToken,
                        !.refreshToken = encrypted.refreshToken,
                        !.expiresAt = encrypted.expiresAt ]

\* the call jiraService.getProjects(accessToken, jiraConfig.cloudId)
TrackerCall(accessToken, jiraConfig) ==
    [ accessToken |-> accessToken, cloudId |-> jiraConfig.cloudId ]

Status(code, err) == [ kind |-> "status", status |-> code, err |-> err ]

\* GET /projects of the logged-in user u arrives; getValidJiraToken:
\* user = await userService.getById(...), the check of user.config?.jira,
\* decryptTokens and the expiry test, up to the call it makes next: the
\* refresh endpoint, or the tracker with the stored access token
getProjects(p, u) ==
    /\ CanStart(p)
    /\ started' = started + 1
    /\ LET doc == user[u]
           r == [ Idle EXCEPT !.op = "getProjects", !.user = u, !.updatedUser = doc ]
       IN IF doc.config = Nil \/ doc.config.jira = Nil
          THEN req' = [ req EXCEPT ![p] = Finish(r, Status(400, "Jira not connected")) ]
          ELSE LET jiraConfig == doc.config.jira
                   t == decryptTokens(jiraConfig)
               IN IF t = Throw(DecryptError)
                  THEN req' = [ req EXCEPT ![p] = Finish(r, Status(500, t.err)) ]
                  ELSE IF IsExpired(now, t.expiresAt)
                  THEN req' = [ req EXCEPT ![p] =
                                  [ r EXCEPT !.pc = "refreshAccessToken",
                                             !.jiraConfig = jiraConfig,
                                             !.currentAccessToken = t.accessToken,
                                             !.refreshCalls = << t.refreshToken >> ] ]
                  ELSE req' = [ req EXCEPT ![p] =
                                  [ r EXCEPT !.pc = "getProjects",
                                             !.jiraConfig = jiraConfig,
                                             !.currentAccessToken = t.accessToken,
                                             !.trackerCalls =
                                                << TrackerCall(t.accessToken, jiraConfig) >> ] ]
    /\ UNCHANGED << user, now, ledgerVars, tokenVars, keyVars, siteVars >>

\* mutant: a failed refresh is swallowed and the handler goes on with the
\* stored access token
MutRefreshFailureIgnored(p) ==
    /\ req[p].pc = "refreshAccessToken"
    /\ \/ /\ LET newTokens == RefreshResponse(Len(refreshLog) + 1)
                  encrypted == encryptTokens(newTokens, now)
              IN /\ refreshLog' = Append(refreshLog,
                        [ refresh_token |-> req[p].refreshCalls[1],
                          response |-> newTokens, encrypted |-> encrypted ])
                 /\ req' = [ req EXCEPT ![p].pc = "updateRefreshed",
                               ![p].tokens = newTokens,
                               ![p].encrypted = encrypted,
                               ![p].updatedUser.config.jira =
                                   Refreshed(req[p].jiraConfig, encrypted) ]
       \/ /\ req' = [ req EXCEPT ![p].pc = "getProjects",
                         ![p].trackerCalls =
                            << TrackerCall(req[p].currentAccessToken, req[p].jiraConfig) >> ]
          /\ UNCHANGED << refreshLog, siteVars >>
    /\ UNCHANGED << user, now, started, ledgerVars, keyVars, siteVars >>

\* newTokens = await jiraService.refreshAccessToken(refreshToken): the token
\* endpoint answers with a new pair, then encrypted = encryptTokens(newTokens)
\* and user.config.jira = { ...jiraConfig, ...encrypted }; or the call throws
\* 'Failed to refresh access token', which getProjects answers with a 500
refreshAccessToken(p) ==
    /\ req[p].pc = "refreshAccessToken"
    /\ \/ /\ LET newTokens == RefreshResponse(Len(refreshLog) + 1)
                  encrypted == encryptTokens(newTokens, now)
              IN /\ refreshLog' = Append(refreshLog,
                        [ refresh_token |-> req[p].refreshCalls[1],
                          response |-> newTokens, encrypted |-> encrypted ])
                 /\ req' = [ req EXCEPT ![p].pc = "updateRefreshed",
                               ![p].tokens = newTokens,
                               ![p].encrypted = encrypted,
                               ![p].updatedUser.config.jira =
                                   Refreshed(req[p].jiraConfig, encrypted) ]
       \/ /\ req' = [ req EXCEPT ![p] =
                         Finish(@, Status(500, "Failed to refresh access token")) ]
          /\ UNCHANGED << refreshLog, siteVars >>
    /\ UNCHANGED << user, now, started, ledgerVars, keyVars, siteVars >>

\* await userService.update(user); currentAccessToken = newTokens.access_token;
\* getValidJiraToken returns and getProjects calls the tracker
updateRefreshed(p) ==
    /\ req[p].pc = "updateRefreshed"
    /\ user' = update(user, req[p].user, req[p].updatedUser)
    /\ req' = [ req EXCEPT ![p].pc = "getProjects",
                  ![p].currentAccessToken = req[p].tokens.access_token,
                  ![p].trackerCalls =
                     << TrackerCall(req[p].tokens.access_token, req[p].jiraConfig) >> ]
    /\ UNCHANGED << now, started, ledgerVars, tokenVars, keyVars, siteVars >>

\* projects = await jiraService.getProjects(...): res.json(projects), or the
\* call throws and getProjects answers with a 500
jiraGetProjects(p) ==
    /\ req[p].pc = "getProjects"
    /\ \/ req' = [ req EXCEPT ![p] = Finish(@, [ kind |-> "json", projects |-> "projects" ]) ]
       \/ req' = [ req EXCEPT ![p] = Finish(@, Status(500, "Failed to fetch projects")) ]
    /\ UNCHANGED << user, now, started, ledgerVars, tokenVars, keyVars, siteVars >>

\* DELETE /disconnect of the logged-in user u arrives:
\* user = await userService.getById(...); if the record has a tracker config,
\* delete user.config.jira and go on to userService.update(user)
disconnect(p, u) ==
    /\ CanStart(p)
    /\ started' = started + 1
    /\ LET doc == user[u]
           r == [ Idle EXCEPT !.op = "disconnect", !.user = u ]
       IN IF doc.config # Nil /\ doc.config.jira # Nil
          THEN req' = [ req EXCEPT ![p] =
                          [ r EXCEPT !.pc = "updateDisconnected",
                                     !.updatedUser =
                                        [ doc EXCEPT !.config.jira = Nil ] ] ]
          ELSE req' = [ req EXCEPT ![p] =
                          Finish(r, [ kind |-> "json",
                                      message |-> "Jira disconnected successfully" ]) ]
    /\ UNCHANGED << user, now, ledgerVars, tokenVars, keyVars, siteVars >>

\* await userService.update(user); res.json({ message })
updateDisconnected(p) ==
    /\ req[p].pc = "updateDisconnected"
    /\ user' = update(user, req[p].user, req[p].updatedUser)
    /\ req' = [ req EXCEPT ![p] =
                  Finish(@, [ kind |-> "json",
                              message |-> "Jira disconnected successfully" ]) ]
    /\ UNCHANGED << now, started, ledgerVars, tokenVars, keyVars, siteVars >>

\* the user collection once u1 has connected Jira through the callback above
\* (the stored access token runs out one tick from now); u2 never connected
Connected ==
    [ u \in Users |->
        IF u = "u1"
        THEN [ config |-> [ jira |->
                 JiraConfig([ cloudId |-> "cloud1", siteUrl |-> "https://site1" ],
                            encryptTokens(RefreshResponse(0), TickMs - (3600 * 1000)),
                            TickMs - (3600 * 1000)) ] ]
        ELSE [ config |-> Nil ] ]

TokenInit ==
    /\ oauth_states = {}
    /\ user = Connected
    /\ now = 0
    /\ req = [ p \in Procs |-> Idle ]
    /\ nextState = 0
    /\ authUrls = {}
    /\ started = 0
    /\ accepted = [ k \in Keys |-> 0 ]
    /\ removed = {}
    /\ superseded = {}
    /\ current = [ u \in Users |-> Nil ]
    /\ refreshLog = << >>
    /\ apikeys = {}
    /\ issued = {}
    /\ accounts = {}
    /\ log = {}

TokenNext ==
    \/ \E p \in Procs, u \in Users : getProjects(p, u)
    \/ \E p \in Procs : refreshAccessToken(p)
    \/ \E p \in Procs : updateRefreshed(p)
    \/ \E p \in Procs : jiraGetProjects(p)
    \/ \E p \in Procs, u \in Users : disconnect(p, u)
    \/ \E p \in Procs : updateDisconnected(p)
    \/ Tick

TokenSpec == TokenInit /\ [][TokenNext]_vars

\* ----------------------------------------------------------- apikey.service
\* Strings are sequences of characters.  crypto.randomBytes(32).toString('hex')
\* is SecretLen characters of Hex here.
SecretLen == 2

Hex == { "a", "b" }

\* characters a caller can put into a key: those of a key, in any place
InputChars == Hex \cup { "i", "h", "_" }

API_KEY_PREFIX == << "i", "h", "_" >>

\* the number of positions at which two strings of one length differ
Distance(s, t) == Cardinality({ i \in 1..Len(s) : s[i] # t[i] })

\* 256 random bits never come out equal to, or one character away from, an
\* earlier draw: the draws are the strings with an even number of "b"
RandomBytes ==
    { s \in [ 1..SecretLen -> Hex ] :
        Cardinality({ i \in 1..SecretLen : s[i] = "b" }) % 2 = 0 }

\* which draw comes first changes nothing: the n-th draw is the n-th of them
\* in alphabetical order
Before(s, t) ==
    \E i \in 1..Len(s) :
      /\ s[i] = "a" /\ t[i] = "b"
      /\ \A j \in 1..(i - 1) : s[j] = t[j]

Draw(n) ==
    CHOOSE s \in RandomBytes :
      Cardinality({ t \in RandomBytes : Before(t, s) }) = n - 1

\* mutant: the key is stored as it is
MutHashIdentity(apiKey) == apiKey

\* crypto.createHash('sha256').update(apiKey).digest('hex'): one-way and
\* free of collisions, the digest is no key
hashApiKey(apiKey) == << "sha256" >> \o apiKey

startsWith(s, prefix) ==
    Len(s) >= Len(prefix) /\ SubSeq(s, 1, Len(prefix)) = prefix

substring(s, n) == SubSeq(s, n + 1, Len(s))

\* mutant: the prefix is never cut off
MutCleanKeyKeepsPrefix(apiKey) == apiKey

\* mutant: the prefix is cut off whatever the first characters are
MutCleanKeyAlwaysCuts(apiKey) == substring(apiKey, Len(API_KEY_PREFIX))

\* cleanKey = apiKey.startsWith(API_KEY_PREFIX)
\*     ? apiKey.substring(API_KEY_PREFIX.length) : apiKey
cleanKey(apiKey) ==
    IF startsWith(apiKey, API_KEY_PREFIX)
    THEN substring(apiKey, Len(API_KEY_PREFIX))
    ELSE apiKey

\* lastUsedAt: null
NeverUsed == -1

\* at most MaxKeys keys are generated
MaxKeys == 2

\* key ids: ObjectIds the database handed out are 1, 2, ...; Unissued is a
\* well-formed id of no record, Malformed no 24-digit hex string at all
Unissued == 0
Malformed == -2
KeyIds == (1..MaxKeys) \cup { Unissued, Malformed }

\* ObjectId.createFromHexString throws on a malformed string
IsObjectId(keyId) == keyId # Malformed

KeyNames == { "ci" }

\* mutant: the lookup also finds documents of other keys of that length
MutFindOneAnyKey(coll, hashedKey) ==
    { d \in coll : Len(d.hashedKey) = Len(hashedKey) /\ d.isActive }

\* collection.findOne({ hashedKey, isActive: true }): the matching documents
findOne(coll, hashedKey) ==
    { d \in coll : d.hashedKey = hashedKey /\ d.isActive }

\* the documents deleteOne({ _id, userId }) matches
deleteOneFilter(coll, keyId, userId) ==
    { d \in coll : d._id = keyId /\ d.userId = userId }

\* mutant: the storage error of the lookup is passed on to the caller
MutValidateRethrows(err) == [ kind |-> "throw", err |-> err ]

\* catch (err) { loggerService.error(...); return null }; the logged error is
\* the request's err
validateCatch(err) == [ kind |-> "null" ]

\* .project({ hashedKey: 0 }) and the map of getAll
KeyMetadata(d) ==
    [ id |-> d._id, name |-> d.name, createdAt |-> d.createdAt,
      lastUsedAt |-> d.lastUsedAt, isActive |-> d.isActive ]

\* generateApiKey(userId, name): a random key, its hash stored by insertOne,
\* the key with its prefix returned
generateApiKey(p, u, name, random) ==
    /\ CanStart(p)
    /\ started' = started + 1
    /\ LET id == Cardinality(issued) + 1
           apiKeyDoc == [ _id |-> id, userId |-> u, name |-> name,
                          hashedKey |-> hashApiKey(random), createdAt |-> now,
                          lastUsedAt |-> NeverUsed, isActive |-> TRUE ]
           result == [ id |-> id, apiKey |-> API_KEY_PREFIX \o random,
                       name |-> name, createdAt |-> now ]
       IN /\ apikeys' = apikeys \cup { apiKeyDoc }
          /\ issued' = issued \cup { [ id |-> id, apiKey |-> result.apiKey,
                                       userId |-> u ] }
          /\ req' = [ req EXCEPT ![p] =
                        Finish([ Idle EXCEPT !.op = "generateApiKey", !.user = u ],
                               [ kind |-> "created", result |-> result ]) ]
    /\ UNCHANGED << user, now, ledgerVars, tokenVars, siteVars >>

\* validateApiKey(apiKey) up to the answer of findOne: the lookup throws, finds
\* nothing (return null), or finds the document and updateOne is called
validateApiKey(p, apiKey) ==
    /\ CanStart(p)
    /\ started' = started + 1
    /\ LET r == [ Idle EXCEPT !.op = "validateApiKey", !.apiKey = apiKey ]
           found == findOne(apikeys, hashApiKey(cleanKey(apiKey)))
       IN \/ req' = [ req EXCEPT ![p] =
                        Finish([ r EXCEPT !.err = "findOne" ], validateCatch("findOne")) ]
          \/ /\ found = {}
             /\ req' = [ req EXCEPT ![p] = Finish(r, [ kind |-> "null" ]) ]
          \/ \E d \in found :
               req' = [ req EXCEPT ![p] = [ r EXCEPT !.pc = "updateOne",
                                                     !.apiKeyDoc = d ] ]
    /\ UNCHANGED << user, now, ledgerVars, tokenVars, keyVars, siteVars >>

\* await collection.updateOne({ _id }, { $set: { lastUsedAt: new Date() } });
\* return { userId, keyId }, or the update throws and the catch returns null
updateOne(p) ==
    /\ req[p].pc = "updateOne"
    /\ \/ /\ apikeys' = { IF d._id = req[p].apiKeyDoc._id
                            THEN [ d EXCEPT !.lastUsedAt = now ] ELSE d :
                            d \in apikeys }
          /\ req' = [ req EXCEPT ![p] =
                        Finish(@, [ kind |-> "identity",
                                    userId |-> req[p].apiKeyDoc.userId,
                                    keyId |-> req[p].apiKeyDoc._id ]) ]
       \/ /\ apikeys' = apikeys
          /\ req' = [ req EXCEPT ![p] =
                        Finish([ @ EXCEPT !.err = "updateOne" ], validateCatch("updateOne")) ]
    /\ UNCHANGED << user, now, started, ledgerVars, tokenVars, issued, siteVars >>

\* mutant: the find of getAll has no userId filter
MutGetAllEveryUser(p, u) ==
    /\ CanStart(p)
    /\ started' = started + 1
    /\ req' = [ req EXCEPT ![p] =
                  Finish([ Idle EXCEPT !.op = "getAll", !.user = u ],
                         [ kind |-> "list",
                           apiKeys |-> { KeyMetadata(d) : d \in apikeys } ]) ]
    /\ UNCHANGED << user, now, ledgerVars, tokenVars, keyVars, siteVars >>

\* getAll(userId): the metadata of the documents of userId
getAll(p, u) ==
    /\ CanStart(p)
    /\ started' = started + 1
    /\ req' = [ req EXCEPT ![p] =
                  Finish([ Idle EXCEPT !.op = "getAll", !.user = u ],
                         [ kind |-> "list",
                           apiKeys |-> { KeyMetadata(d) :
                                           d \in { e \in apikeys : e.userId = u } } ]) ]
    /\ UNCHANGED << user, now, ledgerVars, tokenVars, keyVars, siteVars >>

\* remove(keyId, userId): deleteOne({ _id, userId }); deletedCount 0 throws
\* 'API key not found or unauthorized'; createFromHexString throws first on a
\* malformed keyId and the catch passes that error on
remove(p, keyId, u) ==
    /\ CanStart(p)
    /\ started' = started + 1
    /\ LET r == [ Idle EXCEPT !.op = "remove", !.user = u, !.keyId = keyId ]
           hit == deleteOneFilter(apikeys, keyId, u)
       IN IF ~IsObjectId(keyId)
          THEN /\ apikeys' = apikeys
               /\ req' = [ req EXCEPT ![p] =
                             Finish(r, [ kind |-> "throw",
                                         err |-> "hex string must be 24 characters" ]) ]
          ELSE IF hit = {}
          THEN /\ apikeys' = apikeys
               /\ req' = [ req EXCEPT ![p] =
                             Finish(r, [ kind |-> "throw",
                                         err |-> "API key not found or unauthorized" ]) ]
          ELSE /\ \E d \in hit : apikeys' = apikeys \ { d }
               /\ req' = [ req EXCEPT ![p] = Finish(r, [ kind |-> "true" ]) ]
    /\ UNCHANGED << user, now, ledgerVars, tokenVars, issued, siteVars >>

\* the keys the server can hand out, and what callers may present: such a
\* key, any string one character away from it, the key without its prefix,
\* and the empty string
PossibleKeys == { API_KEY_PREFIX \o s : s \in RandomBytes }

NearBy(k) ==
    { t \in [ 1..Len(k) -> InputChars ] : Distance(k, t) <= 1 }

KeyInputs ==
    UNION { NearBy(k) : k \in PossibleKeys } \cup RandomBytes \cup { << >> }

KeyNext ==
    \/ \E p \in Procs, u \in Users, name \in KeyNames :
          /\ Cardinality(issued) < MaxKeys
          /\ Cardinality(issued) < Cardinality(RandomBytes)
          /\ generateApiKey(p, u, name, Draw(Cardinality(issued) + 1))
    \/ \E p \in Procs, apiKey \in KeyInputs : validateApiKey(p, apiKey)
    \/ \E p \in Procs : updateOne(p)
    \/ \E p \in Procs, u \in Users : getAll(p, u)
    \/ \E p \in Procs, keyId \in KeyIds, u \in Users : remove(p, keyId, u)

KeySpec == Init /\ [][KeyNext]_vars

\* ------------------------------------------------- values of a request body
\* a JSON value of req.body: its typeof class and what the checks look at;
\* strings are sequences of characters
Undefined == [ t |-> "undefined" ]

Str(s) == [ t |-> "string", v |-> s ]

Num(n) == [ t |-> "number", v |-> n ]

Arr(a) == [ t |-> "array", v |-> a ]

\* typeof x
typeof(x) == IF x.t = "array" THEN "object" ELSE x.t

\* the truthiness of x: undefined, '' and 0 are falsy
Truthy(x) ==
    CASE x.t = "undefined" -> FALSE
      [] x.t = "string" -> x.v # << >>
      [] x.t = "number" -> x.v # 0
      [] OTHER -> TRUE

isArray(x) == x.t = "array"

RECURSIVE trimStart(_)
trimStart(s) ==
    IF s # << >> /\ Head(s) = " " THEN trimStart(Tail(s)) ELSE s

RECURSIVE trimEnd(_)
trimEnd(s) ==
    IF s # << >> /\ s[Len(s)] = " " THEN trimEnd(SubSeq(s, 1, Len(s) - 1)) ELSE s

\* String.prototype.trim
trim(s) == trimEnd(trimStart(s))

\* ---------------------------------------- nhi-findings: validateNHIFinding
\* mutant: the validator returns at the first violated rule
MutValidateFirstErrorOnly(data) ==
    LET e1 == IF ~Truthy(data.projectKey) \/ typeof(data.projectKey) # "string"
              THEN << "projectKey is required and must be a string" >> ELSE << >>
        e2 == IF \/ ~Truthy(data.summary) \/ typeof(data.summary) # "string"
                 \/ Len(trim(data.summary.v)) = 0
              THEN << "summary is required and must be a non-empty string" >> ELSE << >>
        e3 == IF \/ ~Truthy(data.description) \/ typeof(data.description) # "string"
                 \/ Len(trim(data.description.v)) = 0
              THEN << "description is required and must be a non-empty string" >>
              ELSE << >>
        e4 == IF Truthy(data.issueType) /\ typeof(data.issueType) # "string"
              THEN << "issueType must be a string" >> ELSE << >>
        e5 == IF Truthy(data.priority) /\ typeof(data.priority) # "string"
              THEN << "priority must be a string" >> ELSE << >>
        e6 == IF Truthy(data.labels) /\ ~isArray(data.labels)
              THEN << "labels must be an array of strings" >> ELSE << >>
        all == e1 \o e2 \o e3 \o e4 \o e5 \o e6
        errors == IF all = << >> THEN all ELSE << Head(all) >>
    IN [ isValid |-> Len(errors) = 0, errors |-> errors ]

\* validateNHIFinding(data): every rule is tested, its message pushed to errors
validateNHIFinding(data) ==
    LET e1 == IF ~Truthy(data.projectKey) \/ typeof(data.projectKey) # "string"
              THEN << "projectKey is required and must be a string" >> ELSE << >>
        e2 == IF \/ ~Truthy(data.summary) \/ typeof(data.summary) # "string"
                 \/ Len(trim(data.summary.v)) = 0
              THEN << "summary is required and must be a non-empty string" >> ELSE << >>
        e3 == IF \/ ~Truthy(data.description) \/ typeof(data.description) # "string"
                 \/ Len(trim(data.description.v)) = 0
              THEN << "description is required and must be a non-empty string" >>
              ELSE << >>
        e4 == IF Truthy(data.issueType) /\ typeof(data.issueType) # "string"
              THEN << "issueType must be a string" >> ELSE << >>
        e5 == IF Truthy(data.priority) /\ typeof(data.priority) # "string"
              THEN << "priority must be a string" >> ELSE << >>
        e6 == IF Truthy(data.labels) /\ ~isArray(data.labels)
              THEN << "labels must be an array of strings" >> ELSE << >>
        errors == e1 \o e2 \o e3 \o e4 \o e5 \o e6
    IN [ isValid |-> Len(errors) = 0, errors |-> errors ]

\* ------------------------------------------- requireApiKey, createNHIFinding
Bearer == << "B", "e", "a", "r", "e", "r", " " >>

\* apiKey.substring(0, 10) takes this many characters
WarnChars == 10

\* s.substring(0, n)
substringTo(s, n) == SubSeq(s, 1, IF n < Len(s) THEN n ELSE Len(s))

\* res.status(status).json({ error, message })
Json(status, error, message) ==
    [ kind |-> "json", status |-> status, error |-> error, message |-> message ]

Unauthorized(message) == Json(401, "Unauthorized", message)

\* the handler returned: the header, the key and the body are locals too
NhiFinish(r, response) ==
    [ Finish(r, response) EXCEPT !.authHeader = << >>, !.apiKey = << >>,
                                 !.body = Nil, !.issueData = Nil ]

\* if (!validation) { loggerService.warn(`Invalid API key attempt: ${...}...`);
\* return res.status(401).json(...) }
InvalidKeyAttempt(apiKey) ==
    [ level |-> "warn", line |-> "Invalid API key attempt",
      apiKey |-> substringTo(apiKey, WarnChars) ]

\* console.log("access token:", currentAccessToken)
AccessTokenLine(currentAccessToken) ==
    [ level |-> "log", line |-> "access token:", token |-> currentAccessToken ]

\* loggerService.error('Cannot create NHI finding via API:', err)
CannotCreate(message) ==
    [ level |-> "error", line |-> "Cannot create NHI finding via API:",
      err |-> message ]

\* err.message.includes(word)
includes(message, word) == \E i \in 1..Len(message) : message[i] = word

\* the catch of createNHIFinding
nhiCatch(message) ==
    IF includes(message, "project") \/ includes(message, "Project")
    THEN Json(404, "Not found", "Project not found or you don't have access to it")
    ELSE IF includes(message, "issue type") \/ includes(message, "issuetype")
    THEN Json(400, "Invalid issue type",
              "The specified issue type is not valid for this project")
    ELSE [ kind |-> "json", status |-> 500, error |-> "Internal server error",
           words |-> message ]

\* issueData of createNHIFinding: issueType defaults to 'Bug', labels to []
IssueData(body) ==
    [ project |-> [ key |-> body.projectKey.v ],
      summary |-> trim(body.summary.v),
      description |-> trim(body.description.v),
      issuetype |-> [ name |-> IF body.issueType.t = "undefined"
                               THEN Str(<< "B", "u", "g" >>) ELSE body.issueType ],
      priority |-> IF Truthy(body.priority) THEN [ name |-> body.priority ]
                   ELSE Undefined,
      labels |-> (IF body.labels.t = "undefined" THEN << >> ELSE body.labels.v)
                   \o << "nhi-finding", "created-via-api", "created-from-identityhub" >> ]

\* the call jiraService.createIssue(currentAccessToken, jiraConfig.cloudId, issueData)
CreateIssueCall(accessToken, jiraConfig, issueData) ==
    [ accessToken |-> accessToken, cloudId |-> jiraConfig.cloudId,
      issueData |-> issueData ]

\* POST /api/nhi-findings arrives with header authHeader and body body:
\* requireApiKey tests the header, takes the key after 'Bearer ' and awaits
\* validateApiKey, which runs findOne: it throws (caught: null), finds nothing
\* (null) or finds the document and calls updateOne
requireApiKey(p, authHeader, body) ==
    /\ CanStart(p)
    /\ started' = started + 1
    /\ LET r == [ Idle EXCEPT !.op = "createNHIFinding", !.authHeader = authHeader,
                              !.body = body ]
           apiKey == substring(authHeader, Len(Bearer))
           found == findOne(apikeys, hashApiKey(cleanKey(apiKey)))
           rejected == NhiFinish(r, Unauthorized("Invalid or expired API key"))
       IN IF authHeader = << >> \/ ~startsWith(authHeader, Bearer)
          THEN /\ req' = [ req EXCEPT ![p] =
                   NhiFinish(r, Unauthorized("Missing or invalid authorization header. Expected: Authorization: Bearer <api-key>")) ]
               /\ log' = log \cup { [ level |-> "warn",
                             line |-> "API request missing authorization header" ] }
          ELSE IF apiKey = << >>
          THEN /\ req' = [ req EXCEPT ![p] =
                             NhiFinish(r, Unauthorized("API key is required")) ]
               /\ log' = log
          ELSE \/ /\ req' = [ req EXCEPT ![p] = [ rejected EXCEPT !.err = "findOne" ] ]
                  /\ log' = log \cup { InvalidKeyAttempt(apiKey) }
               \/ /\ found = {}
                  /\ req' = [ req EXCEPT ![p] = rejected ]
                  /\ log' = log \cup { InvalidKeyAttempt(apiKey) }
               \/ /\ \E d \in found :
                       req' = [ req EXCEPT ![p] =
                                  [ r EXCEPT !.pc = "requireApiKey", !.apiKey = apiKey,
                                             !.apiKeyDoc = d ] ]
                  /\ log' = log
    /\ UNCHANGED << user, now, ledgerVars, tokenVars, keyVars, accounts >>

\* updateOne of lastUsedAt resolves or throws (caught: validation is null);
\* on success req.apiKeyAuth = { userId, keyId }; next(): createNHIFinding
\* validates req.body and either answers 400 or calls userService.getById
requireApiKeyNext(p) ==
    /\ req[p].pc = "requireApiKey"
    /\ \/ /\ apikeys' = apikeys
          /\ req' = [ req EXCEPT ![p] =
                        [ NhiFinish(@, Unauthorized("Invalid or expired API key"))
                             EXCEPT !.err = "updateOne" ] ]
          /\ log' = log \cup { InvalidKeyAttempt(req[p].apiKey) }
       \/ /\ apikeys' = { IF d._id = req[p].apiKeyDoc._id
                            THEN [ d EXCEPT !.lastUsedAt = now ] ELSE d :
                            d \in apikeys }
          /\ LET userId == req[p].apiKeyDoc.userId
                 r == [ req[p] EXCEPT !.user = userId,
                                      !.apiKeyAuth = [ userId |-> userId,
                                                       keyId |-> req[p].apiKeyDoc._id ] ]
                 validation == validateNHIFinding(req[p].body)
             IN IF ~validation.isValid
                THEN /\ req' = [ req EXCEPT ![p] =
                                   NhiFinish(r, [ kind |-> "json", status |-> 400,
                                                  error |-> "Validation error",
                                                  message |-> "Invalid input data",
                                                  details |-> validation.errors ]) ]
                     /\ log' = log \cup { [ level |-> "warn",
                                            line |-> "Invalid NHI finding data",
                                            userId |-> userId,
                                            errors |-> validation.errors ] }
                ELSE /\ req' = [ req EXCEPT ![p] = [ r EXCEPT !.pc = "createNHIFinding" ] ]
                     /\ log' = log
    /\ UNCHANGED << user, now, started, ledgerVars, tokenVars, issued, accounts >>

\* mutant: without the test of jiraConfig, decryptTokens throws on the missing
\* config and the catch answers 500
MutNotConnectedThrows ==
    [ kind |-> "json", status |-> 500, error |-> "Internal server error",
      words |-> << "Cannot", "read", "properties", "of", "undefined" >> ]

\* if (!jiraConfig) return res.status(400).json({ error, message })
NotConnected ==
    Json(400, "Configuration error",
         "Jira is not connected for this user. Please connect Jira through the web interface first.")

\* user = await userService.getById(userId) resolves; without user.config?.jira
\* the answer is 400; else decryptTokens and the expiry test: the refresh
\* endpoint is called, or the access token is logged and the tracker called
createNHIFinding(p) ==
    /\ req[p].pc = "createNHIFinding"
    /\ LET doc == user[req[p].user]
           r == [ req[p] EXCEPT !.updatedUser = doc ]
       IN IF doc.config = Nil \/ doc.config.jira = Nil
          THEN /\ req' = [ req EXCEPT ![p] =
                   NhiFinish(r, NotConnected) ]
               /\ log' = log \cup { [ level |-> "warn",
                     line |-> "attempted to create NHI finding without Jira connection",
                     userId |-> req[p].user ] }
          ELSE LET jiraConfig == doc.config.jira
                   t == decryptTokens(jiraConfig)
                   issueData == IssueData(req[p].body)
               IN IF t = Throw(DecryptError)
                  THEN /\ req' = [ req EXCEPT ![p] =
                                     NhiFinish(r, nhiCatch(<< t.err >>)) ]
                       /\ log' = log \cup { CannotCreate(<< t.err >>) }
                  ELSE IF IsExpired(now, t.expiresAt)
                  THEN /\ req' = [ req EXCEPT ![p] =
                                     [ r EXCEPT !.pc = "nhiRefreshAccessToken",
                                                !.jiraConfig = jiraConfig,
                                                !.currentAccessToken = t.accessToken,
                                                !.refreshCalls = << t.refreshToken >> ] ]
                       /\ log' = log \cup { [ level |-> "info",
                             line |-> "Access token expired, refreshing...",
                             userId |-> req[p].user ] }
                  ELSE /\ req' = [ req EXCEPT ![p] =
                                     [ r EXCEPT !.pc = "nhiCreateIssue",
                                                !.jiraConfig = jiraConfig,
                                                !.currentAccessToken = t.accessToken,
                                                !.issueData = issueData,
                                                !.trackerCalls =
                                                   << CreateIssueCall(t.accessToken,
                                                        jiraConfig, issueData) >> ] ]
                       /\ log' = log \cup { AccessTokenLine(t.accessToken) }
    /\ UNCHANGED << user, now, started, ledgerVars, tokenVars, keyVars, accounts >>

\* newTokens = await jiraService.refreshAccessToken(refreshToken) resolves
\* (encryptTokens, user.config.jira = {...}, userService.update is called) or
\* throws 'Failed to refresh access token' into the handler's catch
nhiRefreshAccessToken(p) ==
    /\ req[p].pc = "nhiRefreshAccessToken"
    /\ \/ /\ LET newTokens == RefreshResponse(Len(refreshLog) + 1)
                  encrypted == encryptTokens(newTokens, now)
              IN /\ refreshLog' = Append(refreshLog,
                        [ refresh_token |-> req[p].refreshCalls[1],
                          response |-> newTokens, encrypted |-> encrypted ])
                 /\ req' = [ req EXCEPT ![p].pc = "nhiUpdate",
                               ![p].tokens = newTokens,
                               ![p].encrypted = encrypted,
                               ![p].updatedUser.config.jira =
                                   Refreshed(req[p].jiraConfig, encrypted) ]
                 /\ log' = log
       \/ /\ req' = [ req EXCEPT ![p] =
                         NhiFinish(@, Json(500, "Internal server error",
                                           "Failed to refresh access token")) ]
          /\ log' = log \cup { CannotCreate(<< "Failed", "to", "refresh", "access", "token" >>) }
          /\ UNCHANGED refreshLog
    /\ UNCHANGED << user, now, started, ledgerVars, keyVars, accounts >>

\* await userService.update(user) resolves; currentAccessToken =
\* newTokens.access_token; console.log("access token:", currentAccessToken);
\* the tracker is called
nhiUpdate(p) ==
    /\ req[p].pc = "nhiUpdate"
    /\ user' = update(user, req[p].user, req[p].updatedUser)
    /\ LET issueData == IssueData(req[p].body)
           accessToken == req[p].tokens.access_token
       IN /\ req' = [ req EXCEPT ![p].pc = "nhiCreateIssue",
                        ![p].currentAccessToken = accessToken,
                        ![p].issueData = issueData,
                        ![p].trackerCalls =
                           << CreateIssueCall(accessToken, req[p].jiraConfig, issueData) >> ]
          /\ log' = log \cup { [ level |-> "info", line |-> "Access token refreshed",
                                 userId |-> req[p].user ],
                               AccessTokenLine(accessToken) }
    /\ UNCHANGED << now, started, ledgerVars, tokenVars, keyVars, accounts >>

\* a message of an error thrown by jiraService.createIssue, word by word: the
\* tracker's errors object names the field it rejects, or there is none
TrackerErrors ==
    { << "project", "is", "required" >>, << "issuetype", "is", "invalid" >>,
      << "Failed", "to", "create", "Jira", "issue" >> }

\* issue = await jiraService.createIssue(...) resolves: 201 with the ticket;
\* or it throws and the catch maps the message to 404, 400 or 500
nhiCreateIssue(p) ==
    /\ req[p].pc = "nhiCreateIssue"
    /\ \/ LET issue == [ key |-> "PROJ-1", id |-> "10001" ]
          IN /\ req' = [ req EXCEPT ![p] =
                   NhiFinish(@, [ kind |-> "json", status |-> 201, success |-> TRUE,
                                  ticket |-> [ key |-> issue.key, id |-> issue.id,
                                               url |-> << req[p].jiraConfig.siteUrl,
                                                          "/browse/", issue.key >> ] ]) ]
             /\ log' = log \cup { [ level |-> "log", line |-> "issue:", issue |-> issue ],
                                  [ level |-> "info", line |-> "NHI finding created via API",
                                    key |-> issue.key, userId |-> req[p].user ] }
       \/ \E message \in TrackerErrors :
            /\ req' = [ req EXCEPT ![p] = NhiFinish(@, nhiCatch(message)) ]
            /\ log' = log \cup { CannotCreate(message) }
    /\ UNCHANGED << user, now, started, ledgerVars, tokenVars, keyVars, accounts >>

\* the keys of the two users as generateApiKey stored and returned them: the
\* first draw for u1, the second for u2
IssuedKeys ==
    { [ id |-> 1, apiKey |-> API_KEY_PREFIX \o Draw(1), userId |-> "u1" ],
      [ id |-> 2, apiKey |-> API_KEY_PREFIX \o Draw(2), userId |-> "u2" ] }

StoredKeys ==
    { [ _id |-> k.id, userId |-> k.userId, name |-> "ci",
        hashedKey |-> hashApiKey(cleanKey(k.apiKey)), createdAt |-> 0,
        lastUsedAt |-> NeverUsed, isActive |-> TRUE ] : k \in IssuedKeys }

\* a key no draw gives
UnknownKey ==
    API_KEY_PREFIX \o [ i \in 1..SecretLen |-> IF i = 1 THEN "b" ELSE "a" ]

\* what a caller may send as Authorization header: none, another scheme,
\* 'Bearer ' alone, and 'Bearer ' with an issued or an unknown key
AuthHeaders ==
    { << >>, << "B", "a", "s", "i", "c", " " >> \o API_KEY_PREFIX \o Draw(1),
      Bearer, Bearer \o UnknownKey }
    \cup { Bearer \o k.apiKey : k \in IssuedKeys }

ValidBody ==
    [ projectKey |-> Str(<< "P" >>), summary |-> Str(<< " ", "s" >>),
      description |-> Str(<< "d" >>), issueType |-> Undefined,
      priority |-> Undefined, labels |-> Undefined ]

\* bodies a caller may send: a valid one, one with summary '', and one that
\* breaks the rules of three fields
Bodies ==
    { ValidBody,
      [ ValidBody EXCEPT !.summary = Str(<< >>) ],
      [ ValidBody EXCEPT !.projectKey = Undefined, !.description = Str(<< " " >>),
                         !.labels = Str(<< "x" >>) ] }

\* u1 has connected Jira, both users hold an API key
NhiInit ==
    /\ oauth_states = {}
    /\ user = Connected
    /\ now = 0
    /\ req = [ p \in Procs |-> Idle ]
    /\ nextState = 0
    /\ authUrls = {}
    /\ started = 0
    /\ accepted = [ k \in Keys |-> 0 ]
    /\ removed = {}
    /\ superseded = {}
    /\ current = [ u \in Users |-> Nil ]
    /\ refreshLog = << >>
    /\ apikeys = StoredKeys
    /\ issued = IssuedKeys
    /\ accounts = {}
    /\ log = {}

NhiNext ==
    \/ \E p \in Procs, authHeader \in AuthHeaders, body \in Bodies :
          started < NhiRequests /\ requireApiKey(p, authHeader, body)
    \/ \E p \in Procs : requireApiKeyNext(p)
    \/ \E p \in Procs : createNHIFinding(p)
    \/ \E p \in Procs : nhiRefreshAccessToken(p)
    \/ \E p \in Procs : nhiUpdate(p)
    \/ \E p \in Procs : nhiCreateIssue(p)
    \/ \E p \in Procs, k \in IssuedKeys :
          started < NhiRequests /\ remove(p, k.id, k.userId)
    \/ Tick

NhiSpec == NhiInit /\ [][NhiNext]_vars

\* --------------------------------- jira.controller: validateIssueData, createIssue
Obj(fields) == [ t |-> "object", v |-> fields ]

\* validateIssueData(data): every rule is tested, its message pushed to errors
validateIssueData(data) ==
    LET e1 == IF ~Truthy(data.project) \/ typeof(data.project) # "object"
              THEN << "project is required and must be an object" >>
              ELSE IF \/ ~Truthy(data.project.v.key)
                      \/ typeof(data.project.v.key) # "string"
              THEN << "project.key is required and must be a string" >> ELSE << >>
        e2 == IF \/ ~Truthy(data.summary) \/ typeof(data.summary) # "string"
                 \/ Len(trim(data.summary.v)) = 0
              THEN << "summary is required and must be a non-empty string" >> ELSE << >>
        e3 == IF ~Truthy(data.issuetype) \/ typeof(data.issuetype) # "object"
              THEN << "issuetype is required and must be an object" >>
              ELSE IF ~Truthy(data.issuetype.v.name) /\ ~Truthy(data.issuetype.v.id)
              THEN << "issuetype.name or issuetype.id is required" >> ELSE << >>
        e4 == IF /\ Truthy(data.description) /\ typeof(data.description) # "string"
                 /\ typeof(data.description) # "object"
              THEN << "description must be a string or an object (Atlassian Document Format)" >>
              ELSE << >>
        e5 == IF Truthy(data.priority) /\ typeof(data.priority) # "object"
              THEN << "priority must be an object with name or id" >> ELSE << >>
        e6 == IF Truthy(data.labels) /\ ~isArray(data.labels)
              THEN << "labels must be an array of strings" >> ELSE << >>
        errors == e1 \o e2 \o e3 \o e4 \o e5 \o e6
    IN [ isValid |-> Len(errors) = 0, errors |-> errors ]

\* POST /api/jira/issues of the logged-in user u arrives with body issueData:
\* validateIssueData; 400 with the errors, or getValidJiraToken is called,
\* which calls userService.getById
createIssue(p, u, issueData) ==
    /\ CanStart(p)
    /\ started' = started + 1
    /\ LET r == [ Idle EXCEPT !.op = "createIssue", !.user = u, !.body = issueData ]
           validation == validateIssueData(issueData)
       IN IF ~validation.isValid
          THEN /\ req' = [ req EXCEPT ![p] =
                             NhiFinish(r, [ kind |-> "json", status |-> 400,
                                            error |-> "Validation error",
                                            message |-> "Invalid issue data",
                                            details |-> validation.errors ]) ]
               /\ log' = log \cup { [ level |-> "warn", line |-> "Invalid issue data:",
                                      errors |-> validation.errors ] }
          ELSE /\ req' = [ req EXCEPT ![p] = [ r EXCEPT !.pc = "getValidJiraToken" ] ]
               /\ log' = log
    /\ UNCHANGED << user, now, ledgerVars, tokenVars, keyVars, accounts >>

\* getValidJiraToken: getById answers; 'Jira not connected' is thrown (400),
\* or the tokens are decrypted and the refresh endpoint or the tracker called
getValidJiraToken(p) ==
    /\ req[p].pc = "getValidJiraToken"
    /\ LET doc == user[req[p].user]
           r == [ req[p] EXCEPT !.updatedUser = doc ]
       IN IF doc.config = Nil \/ doc.config.jira = Nil
          THEN req' = [ req EXCEPT ![p] =
                          NhiFinish(r, Status(400, "Jira not connected")) ]
          ELSE LET jiraConfig == doc.config.jira
                   t == decryptTokens(jiraConfig)
               IN IF t = Throw(DecryptError)
                  THEN req' = [ req EXCEPT ![p] = NhiFinish(r, Status(500, t.err)) ]
                  ELSE IF IsExpired(now, t.expiresAt)
                  THEN req' = [ req EXCEPT ![p] =
                                  [ r EXCEPT !.pc = "refreshAccessToken",
                                             !.jiraConfig = jiraConfig,
                                             !.currentAccessToken = t.accessToken,
                                             !.refreshCalls = << t.refreshToken >> ] ]
                  ELSE req' = [ req EXCEPT ![p] =
                                  [ r EXCEPT !.pc = "jiraCreateIssue",
                                             !.jiraConfig = jiraConfig,
                                             !.currentAccessToken = t.accessToken,
                                             !.trackerCalls =
                                                << CreateIssueCall(t.accessToken,
                                                     jiraConfig, req[p].body) >> ] ]
    /\ UNCHANGED << user, now, started, ledgerVars, tokenVars, keyVars, siteVars >>

\* await userService.update(user) in getValidJiraToken, called by createIssue:
\* it returns the new access token and createIssue calls the tracker
createIssueRefreshed(p) ==
    /\ req[p].pc = "updateRefreshed"
    /\ req[p].op = "createIssue"
    /\ user' = update(user, req[p].user, req[p].updatedUser)
    /\ req' = [ req EXCEPT ![p].pc = "jiraCreateIssue",
                  ![p].currentAccessToken = req[p].tokens.access_token,
                  ![p].trackerCalls =
                     << CreateIssueCall(req[p].tokens.access_token, req[p].jiraConfig,
                                        req[p].body) >> ]
    /\ UNCHANGED << now, started, ledgerVars, tokenVars, keyVars, siteVars >>

\* issue = await jiraService.createIssue(...): res.json(issue), or it throws
\* and the catch answers 500 with the message
jiraCreateIssue(p) ==
    /\ req[p].pc = "jiraCreateIssue"
    /\ \/ req' = [ req EXCEPT ![p] =
                     NhiFinish(@, [ kind |-> "json",
                                    issue |-> [ key |-> "PROJ-1", id |-> "10001" ] ]) ]
       \/ \E message \in TrackerErrors :
            req' = [ req EXCEPT ![p] =
                       NhiFinish(@, [ kind |-> "status", status |-> 500,
                                      words |-> message ]) ]
    /\ UNCHANGED << user, now, started, ledgerVars, tokenVars, keyVars, siteVars >>

\* ------------------------------------------ one request, every kind of body
\* values a caller may put into the fields of a create-finding body
NhiBodies ==
    [ projectKey : { Undefined, Str(<< >>), Str(<< "P" >>), Num(1) },
      summary : { Undefined, Str(<< " " >>), Str(<< "s" >>), Num(1) },
      description : { Str(<< " " >>), Str(<< "d" >>), Arr(<< >>) },
      issueType : { Undefined, Str(<< "T" >>), Num(1) },
      priority : { Undefined, Str(<< "H" >>), Num(0) },
      labels : { Undefined, Arr(<< "l" >>), Str(<< "l" >>) } ]

\* values a caller may put into the fields of a create-issue body
IssueBodies ==
    [ project : { Undefined, Str(<< "P" >>), Obj([ key |-> Undefined ]),
                  Obj([ key |-> Str(<< "P" >>) ]) },
      summary : { Undefined, Str(<< " " >>), Str(<< "s" >>), Num(1) },
      issuetype : { Undefined, Str(<< "T" >>),
                    Obj([ name |-> Undefined, id |-> Undefined ]),
                    Obj([ name |-> Str(<< "T" >>), id |-> Undefined ]) },
      description : { Undefined, Str(<< "d" >>), Num(1) },
      priority : { Undefined, Obj([ name |-> Str(<< "H" >>) ]), Str(<< "H" >>) },
      labels : { Undefined, Arr(<< "l" >>), Str(<< "l" >>) } ]

\* one request is on its way to the server, with any of these bodies, and it
\* arrives before or after the stored access token has run out
InputInit ==
    /\ oauth_states = {}
    /\ user = Connected
    /\ now \in { 0, TickMs }
    /\ \E body \in NhiBodies \cup IssueBodies :
         req = [ p \in Procs |-> IF ProcOrder[p] = 1 THEN [ Idle EXCEPT !.body = body ]
                                 ELSE Idle ]
    /\ nextState = 0
    /\ authUrls = {}
    /\ started = 0
    /\ accepted = [ k \in Keys |-> 0 ]
    /\ removed = {}
    /\ superseded = {}
    /\ current = [ u \in Users |-> Nil ]
    /\ refreshLog = << >>
    /\ apikeys = StoredKeys
    /\ issued = IssuedKeys
    /\ accounts = {}
    /\ log = {}

InputNext ==
    \/ \E p \in Procs, k \in IssuedKeys :
          req[p].body \in NhiBodies /\ requireApiKey(p, Bearer \o k.apiKey, req[p].body)
    \/ \E p \in Procs : requireApiKeyNext(p)
    \/ \E p \in Procs : createNHIFinding(p)
    \/ \E p \in Procs : nhiRefreshAccessToken(p)
    \/ \E p \in Procs : nhiUpdate(p)
    \/ \E p \in Procs : nhiCreateIssue(p)
    \/ \E p \in Procs, u \in Users :
          req[p].body \in IssueBodies /\ createIssue(p, u, req[p].body)
    \/ \E p \in Procs : getValidJiraToken(p)
    \/ \E p \in Procs : refreshAccessToken(p)
    \/ \E p \in Procs : createIssueRefreshed(p)
    \/ \E p \in Procs : jiraCreateIssue(p)

InputSpec == InputInit /\ [][InputNext]_vars

\* ------------------------------------------------- auth.service: signup, login
Emails == { "a@x.com", "b@x.com" }

Passwords == { "pw1", "pw2" }

\* bcrypt.hash(password, saltRounds) and bcrypt.compare(password, hash)
bcryptHash(password) == << "bcrypt", password >>

bcryptCompare(password, hash) == hash = << "bcrypt", password >>

\* mutant: the lookup by email never finds a record
MutGetByEmailNone(coll, email) == {}

\* getByEmail(email): collection.findOne({ email }) answers one of these
getByEmail(coll, email) == { d \in coll : d.email = email }


\* the call returned or threw: the password is a local
AuthFinish(r, response) == [ Finish(r, response) EXCEPT !.password = None ]

\* signup({ email, name, password }) is called: the debug line, the test for
\* missing fields, and userExist = await userService.getByEmail(email); a
\* record found throws 'This email already taken', else bcrypt.hash and
\* userService.add are on their way
signup(p, email, name, password) ==
    /\ CanStart(p)
    /\ started' = started + 1
    /\ log' = log \cup { [ level |-> "debug", line |-> "auth.service - signup",
                           name |-> name, email |-> email ] }
    /\ LET r == [ Idle EXCEPT !.op = "signup", !.email = email, !.name = name,
                              !.password = password ]
       IN IF name = "" \/ password = "" \/ email = ""
          THEN req' = [ req EXCEPT ![p] =
                          AuthFinish(r, Throw("Missing required signup information")) ]
          ELSE IF getByEmail(accounts, email) # {}
          THEN req' = [ req EXCEPT ![p] =
                          AuthFinish(r, Throw("This email already taken")) ]
          ELSE req' = [ req EXCEPT ![p] = [ r EXCEPT !.pc = "add" ] ]
    /\ UNCHANGED << user, now, ledgerVars, tokenVars, keyVars, accounts >>

\* hash = await bcrypt.hash(password, saltRounds);
\* return userService.add({ email, password: hash, name }): insertOne of
\* { name, password, email }, which the database gives the next _id
add(p) ==
    /\ req[p].pc = "add"
    /\ LET userToAdd == [ _id |-> Cardinality(accounts) + 1, name |-> req[p].name,
                          password |-> bcryptHash(req[p].password),
                          email |-> req[p].email ]
       IN /\ accounts' = accounts \cup { userToAdd }
          /\ req' = [ req EXCEPT ![p] =
                        AuthFinish(@, [ kind |-> "user", account |-> userToAdd ]) ]
    /\ UNCHANGED << user, now, started, ledgerVars, tokenVars, keyVars, log >>

\* login(email, password): getByEmail, bcrypt.compare, the mini user
login(p, email, password) ==
    /\ CanStart(p)
    /\ started' = started + 1
    /\ LET r == [ Idle EXCEPT !.op = "login", !.email = email, !.password = password ]
           found == getByEmail(accounts, email)
       IN \/ /\ found = {}
             /\ req' = [ req EXCEPT ![p] = AuthFinish(r, Throw("Unknown email address")) ]
          \/ \E d \in found :
               req' = [ req EXCEPT ![p] =
                  AuthFinish(r, IF bcryptCompare(password, d.password)
                                THEN [ kind |-> "miniUser", _id |-> d._id,
                                       name |-> d.name, email |-> d.email ]
                                ELSE Throw("Invalid email or password")) ]
    /\ UNCHANGED << user, now, ledgerVars, tokenVars, keyVars, siteVars >>

AuthNext ==
    \/ \E p \in Procs, email \in Emails \cup { "" }, password \in Passwords :
          signup(p, email, "Ann", password)
    \/ \E p \in Procs : add(p)
    \/ \E p \in Procs, email \in Emails, password \in Passwords :
          login(p, email, password)

AuthSpec == Init /\ [][AuthNext]_vars

\* ------------------------------------ auth.service: getLoginToken, verifyToken
JWT_SECRET == "fallback-secret-key"

\* expiresIn: '24h', in seconds and in milliseconds
DaySeconds == 86400

DayMs == 86400000

\* the HS256 signature of a payload under a secret
Sign(payload, secret) == << "HS256", secret, payload >>

\* jwt.sign(payload, secret, { expiresIn: '24h' }) at time t (ms): iat is
\* Math.floor(Date.now() / 1000), exp is iat + 86400; issuedAt is history (the
\* time of the call in ms), no part of the token
jwtSign(payload, secret, t) ==
    LET claims == [ _id |-> payload._id, name |-> payload.name,
                    email |-> payload.email, iat |-> t \div 1000,
                    exp |-> (t \div 1000) + DaySeconds ]
    IN [ payload |-> claims, sig |-> Sign(claims, secret), issuedAt |-> t ]

\* mutant: the exp claim is not looked at
MutVerifyIgnoresExp(token, secret, t) ==
    IF token = Nil
    THEN [ kind |-> "error", name |-> "JsonWebTokenError" ]
    ELSE IF token.sig # Sign(token.payload, secret)
    THEN [ kind |-> "error", name |-> "JsonWebTokenError" ]
    ELSE [ kind |-> "decoded", payload |-> token.payload ]

\* jwt.verify(token, secret) at time t (ms): 'jwt must be provided' and
\* 'invalid signature' are JsonWebTokenErrors; the token has expired when
\* Math.floor(Date.now() / 1000) >= exp
jwtVerify(token, secret, t) ==
    IF token = Nil
    THEN [ kind |-> "error", name |-> "JsonWebTokenError" ]
    ELSE IF token.sig # Sign(token.payload, secret)
    THEN [ kind |-> "error", name |-> "JsonWebTokenError" ]
    ELSE IF (t \div 1000) >= token.payload.exp
    THEN [ kind |-> "error", name |-> "TokenExpiredError" ]
    ELSE [ kind |-> "decoded", payload |-> token.payload ]

\* the users a session token is made for
LoginUsers ==
    { [ _id |-> "u1", name |-> "Ann", email |-> "a@x.com" ],
      [ _id |-> "u2", name |-> "Bob", email |-> "b@x.com" ] }

\* getLoginToken(user)
getLoginToken(p, u) ==
    /\ CanStart(p)
    /\ started' = started + 1
    /\ LET token == jwtSign([ _id |-> u._id, name |-> u.name, email |-> u.email ],
                            JWT_SECRET, now)
       IN req' = [ req EXCEPT ![p] =
                     [ Finish([ Idle EXCEPT !.op = "getLoginToken", !.user = u._id ],
                              [ kind |-> "token", token |-> token ])
                         EXCEPT !.token = token ] ]
    /\ UNCHANGED << user, now, ledgerVars, tokenVars, keyVars, siteVars >>

\* verifyToken(token): the decoded _id, name and email, or the catch logs by
\* err.name and returns null
verifyToken(p, token) ==
    /\ CanStart(p)
    /\ started' = started + 1
    /\ LET r == [ Idle EXCEPT !.op = "verifyToken", !.token = token ]
           decoded == jwtVerify(token, JWT_SECRET, now)
       IN IF decoded.kind = "decoded"
          THEN /\ req' = [ req EXCEPT ![p] =
                             Finish(r, [ kind |-> "identity",
                                         _id |-> decoded.payload._id,
                                         name |-> decoded.payload.name,
                                         email |-> decoded.payload.email ]) ]
               /\ log' = log
          ELSE /\ req' = [ req EXCEPT ![p] = Finish(r, [ kind |-> "null" ]) ]
               /\ log' = log \cup { [ level |-> "warn",
                                      line |-> IF decoded.name = "TokenExpiredError"
                                               THEN "JWT token expired"
                                               ELSE "Invalid JWT token" ] }
    /\ UNCHANGED << user, now, ledgerVars, tokenVars, keyVars, accounts >>

\* what a client may present: a token it holds, that token signed under
\* another secret or with another email in it, or nothing
Presented ==
    LET held == { req[q].token : q \in { x \in Procs : req[x].token # Nil } }
    IN held \cup { [ k EXCEPT !.sig = Sign(k.payload, "another-secret") ] : k \in held }
            \cup { [ k EXCEPT !.payload.email = "c@x.com" ] : k \in held }
            \cup { Nil }

\* time passes: less than a second while the clock is in its first second,
\* or about a day
Delays == { 999, DayMs - 999, DayMs - 1, DayMs }

Pass(d) ==
    /\ d < 1000 => now < 1000
    /\ now + d <= DayMs + 1000
    /\ now' = now + d
    /\ UNCHANGED << user, req, started, ledgerVars, tokenVars, keyVars, siteVars >>

JwtNext ==
    \/ \E p \in Procs, u \in LoginUsers : getLoginToken(p, u)
    \/ \E p \in Procs, token \in Presented : verifyToken(p, token)
    \/ \E d \in Delays : Pass(d)

JwtSpec == Init /\ [][JwtNext]_vars

\* ------------------------------------------- jira.service: the token codec
\* token sets the token endpoint may hand to encryptTokens: any two strings
\* (the empty one included) and a lifetime in seconds
TokenSets ==
    [ access_token : { "", "AT1", "AT2" },
      refresh_token : { "", "RT1", "RT2" },
      expires_in : { 0, 1, 3600 } ]

\* decryptTokens(encryptTokens(tokens)), Date.now() being now; the slot keeps
\* what went in and what came out
roundTrip(p, tokens) ==
    /\ CanStart(p)
    /\ started' = started + 1
    /\ LET encrypted == encryptTokens(tokens, now)
       IN req' = [ req EXCEPT ![p] =
                     [ Idle EXCEPT !.op = "roundTrip", !.tokens = tokens,
                                   !.encrypted = encrypted,
                                   !.res = decryptTokens(encrypted) ] ]
    /\ UNCHANGED << user, now, ledgerVars, tokenVars, keyVars, siteVars >>

CodecNext ==
    \/ \E p \in Procs, tokens \in TokenSets : roundTrip(p, tokens)
    \/ Tick

CodecSpec == Init /\ [][CodecNext]_vars

\* ------------------------------ blog-digest-automation.service: the digest
\* userService.query() answers the users in this order
UserOrder == << "u1", "u2" >>

\* an error is thrown out of runBlogDigest: triggerBlogDigest answers 500 with
\* its message, the cron callback of the scheduler has nobody to answer
BlogCatch(r, message) ==
    Finish(r, IF r.op = "triggerBlogDigest"
              THEN [ kind |-> "status", status |-> 500, err |-> "Automation failed",
                     message |-> message ]
              ELSE Nil)

\* what the two catch blocks on the way hand to the logger
BlogLog(r, message) ==
    { [ level |-> "error", line |-> "Blog Digest Automation Failed", err |-> << message >> ],
      [ level |-> "error",
        line |-> IF r.op = "triggerBlogDigest"
                 THEN "Manual blog digest trigger failed:"
                 ELSE "Scheduled blog digest failed:",
        err |-> << message >> ] }

\* POST /api/automation/blog-digest of the logged-in user u: the blog post is
\* fetched and summarised (or that throws), then getSpecificUser calls
\* userService.getById(userId)
triggerBlogDigest(p, u) ==
    /\ CanStart(p)
    /\ started' = started + 1
    /\ LET r == [ Idle EXCEPT !.op = "triggerBlogDigest", !.user = u ]
       IN \/ /\ req' = [ req EXCEPT ![p] = [ r EXCEPT !.pc = "getSpecificUser" ] ]
             /\ log' = log
          \/ /\ req' = [ req EXCEPT ![p] = BlogCatch(r, "Failed to fetch blog post") ]
             /\ log' = log \cup BlogLog(r, "Failed to fetch blog post")
    /\ UNCHANGED << user, now, ledgerVars, tokenVars, keyVars, accounts >>

\* the cron job fires: runBlogDigest() without a userId; no admin user is
\* configured, so findUserWithJira calls userService.query()
scheduledBlogDigest(p) ==
    /\ CanStart(p)
    /\ started' = started + 1
    /\ LET r == [ Idle EXCEPT !.op = "scheduledBlogDigest" ]
       IN \/ /\ req' = [ req EXCEPT ![p] = [ r EXCEPT !.pc = "findUserWithJira" ] ]
             /\ log' = log
          \/ /\ req' = [ req EXCEPT ![p] = BlogCatch(r, "Failed to fetch blog post") ]
             /\ log' = log \cup BlogLog(r, "Failed to fetch blog post")
    /\ UNCHANGED << user, now, ledgerVars, tokenVars, keyVars, accounts >>

\* mutant: a token that expires this very millisecond is still returned
MutStillValidInclusive(t, expiresAt) == t <= expiresAt

\* if (Date.now() < expiresAt) return accessToken
StillValid(t, expiresAt) == t < expiresAt

\* getValidAccessToken(user) up to its first await or its return, and on into
\* selectJiraProject: decryptTokens throws, or the stored access token goes to
\* jiraService.getProjects, or the refresh endpoint is called
getValidAccessToken(r, u, doc) ==
    LET jira == doc.config.jira
        t == decryptTokens(jira)
        s == [ r EXCEPT !.user = u, !.updatedUser = doc, !.jiraConfig = jira ]
    IN  IF t = Throw(DecryptError)
        THEN BlogCatch(s, t.err)
        ELSE IF StillValid(now, t.expiresAt)
        THEN [ s EXCEPT !.pc = "blogGetProjects",
                        !.currentAccessToken = t.accessToken,
                        !.trackerCalls = << TrackerCall(t.accessToken, jira) >> ]
        ELSE [ s EXCEPT !.pc = "blogRefreshAccessToken",
                        !.currentAccessToken = t.accessToken,
                        !.refreshCalls = << t.refreshToken >> ]

\* the lines logged when getValidAccessToken throws out of decryptTokens
DecryptLog(r, jira) ==
    IF decryptTokens(jira) = Throw(DecryptError) THEN BlogLog(r, DecryptError) ELSE {}

\* getSpecificUser: user = await userService.getById(userId) resolves;
\* without user.config?.jira it throws, else getValidAccessToken(user)
getSpecificUser(p) ==
    /\ req[p].pc = "getSpecificUser"
    /\ LET doc == user[req[p].user]
           message == "User not found or Jira not connected"
       IN IF doc.config = Nil \/ doc.config.jira = Nil
          THEN /\ req' = [ req EXCEPT ![p] = BlogCatch(req[p], message) ]
               /\ log' = log \cup BlogLog(req[p], message)
          ELSE /\ req' = [ req EXCEPT ![p] =
                   getValidAccessToken(req[p], req[p].user, doc) ]
               /\ log' = log \cup DecryptLog(req[p], doc.config.jira)
    /\ UNCHANGED << user, now, started, ledgerVars, tokenVars, keyVars, accounts >>

\* findUserWithJira: users = await userService.query() resolves and the first
\* user with config?.jira?.accessToken is taken, or query throws and null is
\* returned; without a user getAutomationUser throws
findUserWithJira(p) ==
    /\ req[p].pc = "findUserWithJira"
    /\ LET with == { i \in 1..Len(UserOrder) :
                       /\ user[UserOrder[i]].config # Nil
                       /\ user[UserOrder[i]].config.jira # Nil }
           message == "No users with Jira connected found. At least one user must connect Jira for automation to work."
       IN \/ /\ with # {}
             /\ LET i == CHOOSE i \in with : \A j \in with : i <= j
                    u == UserOrder[i]
                IN /\ req' = [ req EXCEPT ![p] =
                         getValidAccessToken(req[p], u, user[u]) ]
                   /\ log' = log \cup DecryptLog(req[p], user[u].config.jira)
          \/ /\ req' = [ req EXCEPT ![p] = BlogCatch(req[p], message) ]
             /\ log' = log \cup BlogLog(req[p], message)
    /\ UNCHANGED << user, now, started, ledgerVars, tokenVars, keyVars, accounts >>

\* newTokens = await jiraService.refreshAccessToken(refreshToken) resolves:
\* encrypted = encryptTokens(newTokens), user.config.jira =
\* { ...user.config.jira, ...encrypted }, userService.update(user) is called;
\* or it throws
blogRefreshAccessToken(p) ==
    /\ req[p].pc = "blogRefreshAccessToken"
    /\ \/ /\ LET newTokens == RefreshResponse(Len(refreshLog) + 1)
                  encrypted == encryptTokens(newTokens, now)
              IN /\ refreshLog' = Append(refreshLog,
                        [ refresh_token |-> req[p].refreshCalls[1],
                          response |-> newTokens, encrypted |-> encrypted ])
                 /\ req' = [ req EXCEPT ![p].pc = "blogUpdate",
                               ![p].tokens = newTokens,
                               ![p].encrypted = encrypted,
                               ![p].updatedUser.config.jira =
                                   [ req[p].updatedUser.config.jira EXCEPT
                                        !.accessToken = encrypted.accessToken,
                                        !.refreshToken = encrypted.refreshToken,
                                        !.expiresAt = encrypted.expiresAt ] ]
                 /\ log' = log
       \/ /\ req' = [ req EXCEPT ![p] = BlogCatch(@, "Failed to refresh access token") ]
          /\ log' = log \cup BlogLog(req[p], "Failed to refresh access token")
          /\ UNCHANGED refreshLog
    /\ UNCHANGED << user, now, started, ledgerVars, keyVars, accounts >>

\* await userService.update(user) resolves; newTokens.access_token is returned
\* and selectJiraProject calls jiraService.getProjects with it
blogUpdate(p) ==
    /\ req[p].pc = "blogUpdate"
    /\ user' = update(user, req[p].user, req[p].updatedUser)
    /\ req' = [ req EXCEPT ![p].pc = "blogGetProjects",
                  ![p].currentAccessToken = req[p].tokens.access_token,
                  ![p].trackerCalls =
                     << TrackerCall(req[p].tokens.access_token,
                                    req[p].updatedUser.config.jira) >> ]
    /\ UNCHANGED << now, started, ledgerVars, tokenVars, keyVars, siteVars >>

\* the call jiraService.createIssue(accessToken, user.config.jira.cloudId, issueData)
BlogIssueCall(accessToken, jira) ==
    [ accessToken |-> accessToken, cloudId |-> jira.cloudId,
      issueData |-> [ project |-> [ key |-> "BLOG" ],
                      issuetype |-> [ name |-> "Task" ] ] ]

\* projects = await jiraService.getProjects(...) resolves with a project and
\* jiraService.createIssue is called; or with none, or it throws
blogGetProjects(p) ==
    /\ req[p].pc = "blogGetProjects"
    /\ \/ /\ req' = [ req EXCEPT ![p].pc = "blogCreateIssue",
                        ![p].trackerCalls =
                           Append(@, BlogIssueCall(req[p].currentAccessToken,
                                                   req[p].updatedUser.config.jira)) ]
          /\ log' = log
       \/ \E message \in { "No Jira projects available", "Failed to fetch Jira projects" } :
            /\ req' = [ req EXCEPT ![p] = BlogCatch(@, message) ]
            /\ log' = log \cup BlogLog(req[p], message)
    /\ UNCHANGED << user, now, started, ledgerVars, tokenVars, keyVars, accounts >>

\* createdIssue = await jiraService.createIssue(...) resolves and the result
\* is returned (triggerBlogDigest answers it), or it throws
blogCreateIssue(p) ==
    /\ req[p].pc = "blogCreateIssue"
    /\ \/ /\ req' = [ req EXCEPT ![p] =
                        Finish(@, IF req[p].op = "triggerBlogDigest"
                                  THEN [ kind |-> "json",
                                         message |-> "Blog digest automation completed successfully",
                                         key |-> "BLOG-1" ]
                                  ELSE Nil) ]
          /\ log' = log
       \/ /\ req' = [ req EXCEPT ![p] = BlogCatch(@, "Failed to create Jira issue") ]
          /\ log' = log \cup BlogLog(req[p], "Failed to create Jira issue")
    /\ UNCHANGED << user, now, started, ledgerVars, tokenVars, keyVars, accounts >>

\* ------------------------------------------- the three token lifecycles
\* a stored tracker config that no longer decrypts: a ciphertext whose bytes
\* changed, or one written before config.secret1 was changed
Unreadable(jira) ==
    { [ jira EXCEPT !.accessToken = << "enc", "garbage", @[3] >> ],
      [ jira EXCEPT !.refreshToken = << "enc", "garbage", @[3] >> ],
      [ jira EXCEPT !.accessToken = Cryptr(otherSecret, @[2]),
                    !.refreshToken = Cryptr(otherSecret, @[2]) ] }

\* the requests each run may start
LifeRequests == 1

\* u1 connected Jira (the stored access token runs out one tick from now) and
\* the stored config is intact or unreadable; both users hold an API key
LifeInit ==
    /\ oauth_states = {}
    /\ user \in { Connected } \cup
                { [ Connected EXCEPT !["u1"].config.jira = jira ] :
                    jira \in Unreadable(Connected["u1"].config.jira) }
    /\ now = 0
    /\ req = [ p \in Procs |-> Idle ]
    /\ nextState = 0
    /\ authUrls = {}
    /\ started = 0
    /\ accepted = [ k \in Keys |-> 0 ]
    /\ removed = {}
    /\ superseded = {}
    /\ current = [ u \in Users |-> Nil ]
    /\ refreshLog = << >>
    /\ apikeys = StoredKeys
    /\ issued = IssuedKeys
    /\ accounts = {}
    /\ log = {}

LifeNext ==
    \/ \E p \in Procs, u \in Users : started < LifeRequests /\ getProjects(p, u)
    \/ \E p \in Procs : refreshAccessToken(p)
    \/ \E p \in Procs : updateRefreshed(p)
    \/ \E p \in Procs : jiraGetProjects(p)
    \/ \E p \in Procs, k \in IssuedKeys :
          started < LifeRequests /\ requireApiKey(p, Bearer \o k.apiKey, ValidBody)
    \/ \E p \in Procs : requireApiKeyNext(p)
    \/ \E p \in Procs : createNHIFinding(p)
    \/ \E p \in Procs : nhiRefreshAccessToken(p)
    \/ \E p \in Procs : nhiUpdate(p)
    \/ \E p \in Procs : nhiCreateIssue(p)
    \/ \E p \in Procs, u \in Users : started < LifeRequests /\ triggerBlogDigest(p, u)
    \/ \E p \in Procs : started < LifeRequests /\ scheduledBlogDigest(p)
    \/ \E p \in Procs : getSpecificUser(p)
    \/ \E p \in Procs : findUserWithJira(p)
    \/ \E p \in Procs : blogRefreshAccessToken(p)
    \/ \E p \in Procs : blogUpdate(p)
    \/ \E p \in Procs : blogGetProjects(p)
    \/ \E p \in Procs : blogCreateIssue(p)
    \/ Tick

LifeSpec == LifeInit /\ [][LifeNext]_vars

\* -------------------------------------------------------------- properties
Callbacks == { p \in Procs : req[p].op = "handleOAuthCallback" }

\* the call of validateAndDeleteState by request p has returned
Validated(p) == req[p].op = "handleOAuthCallback" /\ req[p].vArgs # <<>>

\* positions of handleOAuthCallback from the call of exchangeCodeForTokens on
ExchangeStages == { "exchangeCodeForTokens", "getCloudId", "getById", "update" }

\* documents of the collection stored for userId / with state
DocsOf(userId) == { d \in oauth_states : d.userId = userId }
DocsWith(userId, state) == { d \in DocsOf(userId) : d.state = state }

\* C1: of the callbacks that present the same (user, state), in any
\* interleaving, validateAndDeleteState returns true for at most one, and at
\* most one of them is past the call of exchangeCodeForTokens.
C1_AtMostOneAccepted ==
    \A k \in Keys :
      /\ accepted[k] <= 1
      /\ Cardinality({ p \in Callbacks : /\ ValidateArgs(req[p]) = k
                                         /\ req[p].pc \in ExchangeStages }) <= 1

\* two callbacks overlapped on one (user, state): one, still running, was
\* accepted, the other was rejected meanwhile
C1_Witness ==
    \E p, q \in Procs :
      /\ p # q /\ Validated(p) /\ Validated(q)
      /\ req[p].vArgs = req[q].vArgs
      /\ req[p].isValidState /\ req[p].pc \in ExchangeStages
      /\ ~req[q].isValidState
      /\ req[q].vArgs \in authUrls

\* this step starts a callback in slot p and runs its validateAndDeleteState
\* call, whose arguments are then req'[p].vArgs
Validates(p) ==
    /\ CanStart(p)
    /\ started' = started + 1
    /\ req'[p].op = "handleOAuthCallback"
    /\ req'[p].vArgs # <<>>

\* the userId and the state that call is made with
VUser(p) == req'[p].vArgs[1]
VState(p) == req'[p].vArgs[2]

\* C2: while the last createState step for u is the insertion of s and s has
\* not expired, a call validateAndDeleteState(u, s) returns true exactly when
\* no earlier call returned true: the first succeeds, every later one fails.
C2_ConsumedExactlyOnce ==
    [][ \A p \in Procs :
          ( /\ Validates(p)
            /\ current[VUser(p)] # Nil
            /\ current[VUser(p)].state = VState(p)
            /\ now < current[VUser(p)].expiresAt )
          => ( req'[p].isValidState <=> accepted[req'[p].vArgs] = 0 ) ]_vars

\* a second validation of the state created last was rejected before expiry
\* after the first had been accepted
C2_Witness ==
    \E p \in Procs :
      /\ Validated(p) /\ ~req[p].isValidState
      /\ current[req[p].user] # Nil
      /\ current[req[p].user].state = req[p].state
      /\ now < current[req[p].user].expiresAt
      /\ accepted[req[p].vArgs] = 1

\* C3: the collection holds at most one live state document per userId.
C3_OneLiveStatePerUser ==
    \A u \in Users :
      Cardinality({ d \in DocsOf(u) : d.expiresAt > now }) <= 1

\* C4: once createState(u, s2) has run after createState(u, s1) returned,
\* validateAndDeleteState(u, s1) returns false; and validateAndDeleteState(u, s2)
\* returns true when it is called before expiry, first, and no createState step
\* for u came after.
C4_SecondCreateInvalidatesFirst ==
    [][ \A p \in Procs :
          Validates(p) =>
            LET u == VUser(p)
                s == VState(p)
            IN /\ (\E s2 \in States : << u, s, s2 >> \in superseded)
                    => ~req'[p].isValidState
               /\ ( /\ \E s1 \in States : << u, s1, s >> \in superseded
                    /\ current[u] # Nil
                    /\ current[u].state = s
                    /\ now < current[u].expiresAt
                    /\ accepted[<< u, s >>] = 0 )
                    => req'[p].isValidState ]_vars

\* the first state, neither consumed nor expired, was rejected after the
\* second createState, while the second state was still live
C4_Witness ==
    \E p \in Procs, s2 \in States :
      /\ Validated(p) /\ ~req[p].isValidState
      /\ << req[p].user, req[p].state, s2 >> \in superseded
      /\ accepted[req[p].vArgs] = 0 /\ now = 0
      /\ \E d \in DocsWith(req[p].user, s2) : d.expiresAt > now

\* C5: validateAndDeleteState(u, s) returns false when the stored document of
\* (u, s) has expiresAt <= now, and the document stays for the TTL sweep.
C5_ExpiredStateRejected ==
    [][ \A p \in Procs :
          ( /\ Validates(p)
            /\ DocsWith(VUser(p), VState(p)) # {}
            /\ \A d \in DocsWith(VUser(p), VState(p)) : d.expiresAt <= now )
          => ( ~req'[p].isValidState /\ oauth_states' = oauth_states ) ]_vars

\* a matching but expired document was rejected and is still stored
C5_Witness ==
    \E p \in Procs :
      /\ Validated(p) /\ ~req[p].isValidState
      /\ \E d \in DocsWith(req[p].user, req[p].state) :
           d.expiresAt <= now /\ d.expiresAt = d.createdAt + (5 * 60 * 1000)

\* C6: validateAndDeleteState(uB, s) for a state s stored for another user
\* returns false and leaves the collection as it was.
C6_StateBoundToUser ==
    [][ \A p \in Procs :
          ( /\ Validates(p)
            /\ \E d \in oauth_states :
                  d.state = VState(p) /\ d.userId # VUser(p) )
          => ( ~req'[p].isValidState /\ oauth_states' = oauth_states ) ]_vars

\* uB was rejected with uA's state, which is still stored and live for uA
C6_Witness ==
    \E p \in Procs :
      /\ Validated(p) /\ ~req[p].isValidState
      /\ \E d \in oauth_states :
           /\ d.state = req[p].state /\ d.userId # req[p].user
           /\ d.expiresAt > now

\* request p has called exchangeCodeForTokens
Exchanged(p) ==
    /\ req[p].op = "handleOAuthCallback"
    /\ \/ req[p].pc \in ExchangeStages
       \/ req[p].res \in { Redirect("/jira/success", ""),
                           ErrorUrl("Failed to exchange authorization code"),
                           ErrorUrl("Failed to get Jira cloud ID") }

\* C7: a callback is at or past the call of exchangeCodeForTokens only if
\* validateAndDeleteState returned true in that request, called with the
\* request's own user and presented state.
C7_ExchangeOnlyAfterValidState ==
    \A p \in Procs :
      Exchanged(p) =>
        /\ req[p].isValidState
        /\ req[p].vArgs = << req[p].user, req[p].state >>
        /\ accepted[req[p].vArgs] >= 1

\* a callback stored the tokens after its state was accepted
C7_Witness ==
    \E p \in Procs :
      /\ req[p].res = Redirect("/jira/success", "")
      /\ req[p].isValidState
      /\ user[req[p].user].config # Nil

\* C8: a step of a callback changes the user collection only when it is the
\* request's successful end: a callback that fails has written nothing.
C8_FailedCallbackWritesNothing ==
    [][ \A p \in Procs :
          ( /\ req'[p] # req[p]
            /\ req'[p].op = "handleOAuthCallback"
            /\ req'[p].res # Redirect("/jira/success", "") )
          => user' = user ]_vars

\* a callback failed at the workspace resolution, after the code exchange had
\* succeeded, and its user is still disconnected
C8_Witness ==
    \E p \in Procs :
      /\ req[p].op = "handleOAuthCallback"
      /\ req[p].res = ErrorUrl("Failed to get Jira cloud ID")
      /\ user[req[p].user].config = Nil

\* C9: a callback of u with a state other than the stored one leaves u
\* disconnected and deletes the stored state document of u.
C9_MismatchDeletesStoredState ==
    [][ \A p \in Procs :
          ( /\ Validates(p)
            /\ DocsOf(VUser(p)) # {}
            /\ DocsWith(VUser(p), VState(p)) = {} )
          => ( /\ ~req'[p].isValidState
               /\ user' = user
               /\ { d \in oauth_states' : d.userId = VUser(p) } = {} ) ]_vars

\* C10: a state that was consumed, or whose document was deleted, is not
\* accepted by any later validateAndDeleteState.
C10_NoResurrection ==
    [][ \A p \in Procs :
          ( /\ Validates(p)
            /\ \/ req'[p].vArgs \in removed
               \/ accepted[req'[p].vArgs] >= 1 )
          => ~req'[p].isValidState ]_vars

\* a state deleted by a concurrent createState (neither consumed nor expired)
\* was presented and rejected while a createState of that user was between
\* deleteMany and insertOne
C10_Witness ==
    \E p, q \in Procs :
      /\ Validated(p) /\ ~req[p].isValidState
      /\ req[p].vArgs \in removed
      /\ accepted[req[p].vArgs] = 0 /\ now = 0
      /\ req[q].op = "initiateOAuth" /\ req[q].user = req[p].user
      /\ req[q].pc = "insertOne"

\* C11: every oauth_states document whose expiresAt has passed is eventually
\* removed from the collection by the TTL sweep, whether or not any
\* validateAndDeleteState call was ever made for it.
C11_ExpiredEventuallyRemoved ==
    \A u \in Users, s \in States :
      ( \E d \in DocsWith(u, s) : d.expiresAt <= now ) ~> ( DocsWith(u, s) = {} )

\* a document that was the user's latest (no createState replaced it) and
\* that no callback ever matched is gone from the collection after it expired
C11_Witness ==
    \E u \in Users :
      /\ current[u] # Nil
      /\ current[u].expiresAt <= now
      /\ accepted[<< u, current[u].state >>] = 0
      /\ << u, current[u].state >> \in removed
      /\ DocsOf(u) = {}

\* ---------------------------------------------- properties: token lifecycle
\* this step starts a getProjects request of a connected user in slot p
StartsGetProjects(p) ==
    /\ CanStart(p)
    /\ started' = started + 1
    /\ req'[p].op = "getProjects"
    /\ user[req'[p].user].config # Nil
    /\ user[req'[p].user].config.jira # Nil

\* the tracker config stored for the user of the request that starts in p
StoredJira(p) == user[req'[p].user].config.jira

\* C12: a getProjects request that finds now >= the stored expiresAt calls
\* refreshAccessToken exactly once, with the stored refresh token, before it
\* calls the tracker, and calls the tracker with the access token that
\* refresh returned; one that finds now < expiresAt never refreshes and calls
\* the tracker with the decrypted stored access token.
C12_RefreshIffExpired ==
    [][ \A p \in Procs :
          /\ StartsGetProjects(p) =>
                IF now >= StoredJira(p).expiresAt
                THEN /\ req'[p].refreshCalls = << Decrypt(StoredJira(p).refreshToken) >>
                     /\ req'[p].trackerCalls = << >>
                ELSE /\ req'[p].refreshCalls = << >>
                     /\ req'[p].trackerCalls =
                           << [ accessToken |-> Decrypt(StoredJira(p).accessToken),
                                cloudId |-> StoredJira(p).cloudId ] >>
          /\ ( req[p].op = "getProjects" /\ req[p].pc # "done" ) =>
                /\ req'[p].refreshCalls = req[p].refreshCalls
                /\ req'[p].trackerCalls # req[p].trackerCalls =>
                      /\ req[p].trackerCalls = << >>
                      /\ Len(req[p].refreshCalls) = 1
                      /\ \E i \in 1..Len(refreshLog) :
                            /\ refreshLog[i].response = req[p].tokens
                            /\ refreshLog[i].refresh_token = req[p].refreshCalls[1]
                      /\ req'[p].trackerCalls =
                            << [ accessToken |-> req[p].tokens.access_token,
                                 cloudId |-> req[p].jiraConfig.cloudId ] >> ]_vars

\* a request that found the token expired at the very millisecond of expiry
\* has refreshed and called the tracker with the new access token, while an
\* earlier request used the stored one without refreshing
C12_Witness ==
    \E p, q \in Procs :
      /\ p # q
      /\ req[p].op = "getProjects" /\ req[p].pc = "getProjects"
      /\ Len(req[p].refreshCalls) = 1
      /\ req[p].trackerCalls = << [ accessToken |-> "AT2", cloudId |-> "cloud1" ] >>
      /\ now = TickMs
      /\ req[q].op = "getProjects" /\ req[q].refreshCalls = << >>
      /\ req[q].trackerCalls = << [ accessToken |-> "AT1", cloudId |-> "cloud1" ] >>

\* this step is the userService.update of the refreshing request in slot p
WritesRefreshed(p) == req[p].pc = "updateRefreshed" /\ req'[p].pc # "updateRefreshed"

\* C13: the write of a successful refresh leaves cloudId, siteUrl and
\* connectedAt of the persisted tracker config as they were, replaces only
\* accessToken, refreshToken and expiresAt, and the stored access token
\* decrypts to the token the refresh returned.
C13_RefreshWritesOnlyTokens ==
    [][ \A p \in Procs :
          WritesRefreshed(p) =>
            LET before == user[req[p].user].config
                after == user'[req[p].user].config
            IN /\ \A u \in Users \ { req[p].user } : user'[u] = user[u]
               /\ after # Nil /\ after.jira # Nil
               /\ Decrypt(after.jira.accessToken) = req[p].tokens.access_token
               /\ before # Nil /\ before.jira # Nil
               /\ after.jira.cloudId = before.jira.cloudId
               /\ after.jira.siteUrl = before.jira.siteUrl
               /\ after.jira.connectedAt = before.jira.connectedAt ]_vars

\* this step is the return of a refresh call of request p without an answer
\* of the token endpoint: refreshAccessToken threw
RefreshFails(p) ==
    /\ req[p].pc = "refreshAccessToken"
    /\ req'[p] # req[p]
    /\ refreshLog' = refreshLog

\* C14: when refreshAccessToken fails the request ends with an error
\* response, has made no tracker call, has attempted the refresh exactly
\* once, and the step leaves the stored user records unchanged.
C14_RefreshFailureEndsRequest ==
    [][ \A p \in Procs :
          RefreshFails(p) =>
            /\ req'[p].pc = "done"
            /\ req'[p].res = Status(500, "Failed to refresh access token")
            /\ req'[p].trackerCalls = << >>
            /\ Len(req'[p].refreshCalls) = 1
            /\ user' = user ]_vars

\* a request whose refresh failed has ended with the error, no tracker call
\* and one refresh attempt, and u1's stored config is the one it found
C14_Witness ==
    \E p \in Procs :
      /\ req[p].op = "getProjects" /\ req[p].pc = "done"
      /\ req[p].res = Status(500, "Failed to refresh access token")
      /\ req[p].trackerCalls = << >>
      /\ Len(req[p].refreshCalls) = 1
      /\ user = Connected

\* the token fields of a stored tracker config
TokenTriple(jira) ==
    [ accessToken |-> jira.accessToken, refreshToken |-> jira.refreshToken,
      expiresAt |-> jira.expiresAt ]

\* C15: in every state the stored accessToken, refreshToken and expiresAt of
\* a user come from one and the same token response: the one stored at
\* connect time or one answer of the refresh endpoint, never a mix of two.
C15_StoredTokensFromOneResponse ==
    \A u \in Users :
      ( user[u].config # Nil /\ user[u].config.jira # Nil ) =>
         \/ TokenTriple(user[u].config.jira) = TokenTriple(Connected[u].config.jira)
         \/ \E i \in 1..Len(refreshLog) :
              TokenTriple(user[u].config.jira) = refreshLog[i].encrypted

\* two requests of u1 refreshed concurrently with the same stored refresh
\* token, at different times, both wrote, and the stored tokens are those of
\* the first answer (its request wrote last)
C15_Witness ==
    \E p, q \in Procs :
      /\ p # q
      /\ req[p].op = "getProjects" /\ req[q].op = "getProjects"
      /\ req[p].trackerCalls # << >> /\ req[q].trackerCalls # << >>
      /\ Len(refreshLog) = 2
      /\ req[p].refreshCalls = << refreshLog[1].refresh_token >>
      /\ req[q].refreshCalls = << refreshLog[2].refresh_token >>
      /\ refreshLog[1].refresh_token = refreshLog[2].refresh_token
      /\ refreshLog[1].encrypted.expiresAt # refreshLog[2].encrypted.expiresAt
      /\ user["u1"].config # Nil /\ user["u1"].config.jira # Nil
      /\ TokenTriple(user["u1"].config.jira) = refreshLog[1].encrypted

\* ---------------------------------------------------- properties: API keys
\* this step starts a validateApiKey call in slot p and runs its findOne
StartsValidate(p) ==
    /\ CanStart(p)
    /\ started' = started + 1
    /\ req'[p].op = "validateApiKey"

\* this step is the answer of updateOne to the validateApiKey call in slot p
EndsValidate(p) == req[p].pc = "updateOne" /\ req'[p].pc = "done"

\* the issued keys whose record is (still) in the collection
Unrevoked == { k \in issued : \E d \in apikeys : d._id = k.id }

Identity(k) == [ kind |-> "identity", userId |-> k.userId, keyId |-> k.id ]

\* C16: the key generateApiKey returns starts with 'ih_', and validateApiKey
\* of exactly that string, while the key is not revoked and no storage call
\* of the validation fails, returns the userId the key was generated for and
\* the id of the record created.
C16_IssuedKeyValidates ==
    [][ \A p \in Procs :
          /\ ( CanStart(p) /\ started' = started + 1
                  /\ req'[p].op = "generateApiKey" ) =>
                /\ startsWith(req'[p].res.result.apiKey, API_KEY_PREFIX)
                /\ \E d \in apikeys' \ apikeys :
                      /\ d._id = req'[p].res.result.id
                      /\ d.userId = req'[p].user
          /\ \A k \in Unrevoked :
                ( StartsValidate(p) /\ req'[p].apiKey = k.apiKey
                    /\ req'[p].err = None ) =>
                  /\ req'[p].pc = "updateOne"
                  /\ req'[p].apiKeyDoc._id = k.id
                  /\ req'[p].apiKeyDoc.userId = k.userId
          /\ \A k \in issued :
                ( EndsValidate(p) /\ req[p].apiKey = k.apiKey
                    /\ req'[p].err = None ) =>
                  req'[p].res = Identity(k) ]_vars

\* with two keys of two users in the collection, the second key was
\* validated as its owner's
C16_Witness ==
    \E p \in Procs, k \in issued :
      /\ Cardinality(apikeys) = 2
      /\ k.id = 2
      /\ \E j \in issued : j.userId # k.userId
      /\ req[p].op = "validateApiKey" /\ req[p].pc = "done"
      /\ req[p].apiKey = k.apiKey
      /\ req[p].res = Identity(k)

\* C17: validateApiKey of a string that differs from an issued key in exactly
\* one character position, in the prefix or after it, returns null.
C17_OneCharacterOffIsRejected ==
    [][ \A p \in Procs : \A k \in issued :
          ( /\ StartsValidate(p)
            /\ Len(req'[p].apiKey) = Len(k.apiKey)
            /\ Distance(req'[p].apiKey, k.apiKey) = 1 )
          => ( req'[p].pc = "done" /\ req'[p].res = [ kind |-> "null" ] ) ]_vars

\* a string that differs from a stored, unrevoked key only inside the prefix
\* was looked up without a storage error and rejected
C17_Witness ==
    \E p \in Procs, k \in Unrevoked :
      /\ req[p].op = "validateApiKey" /\ req[p].pc = "done"
      /\ req[p].err = None
      /\ req[p].res = [ kind |-> "null" ]
      /\ Len(req[p].apiKey) = Len(k.apiKey)
      /\ \E i \in 1..Len(API_KEY_PREFIX) :
            /\ req[p].apiKey[i] # k.apiKey[i]
            /\ \A j \in 1..Len(k.apiKey) : j # i => req[p].apiKey[j] = k.apiKey[j]

\* the strings that are the issued key k, with or without its prefix
Forms(k) == { k.apiKey, SubSeq(k.apiKey, Len(API_KEY_PREFIX) + 1, Len(k.apiKey)) }

\* C18: validateApiKey returns null for a string that is no issued key and
\* for a key whose record has been removed; it ends with null or an identity
\* and never with an error, and with null when a storage call failed.
C18_UnknownOrRemovedIsNull ==
    [][ \A p \in Procs :
          /\ ( StartsValidate(p)
                /\ \A k \in Unrevoked : req'[p].apiKey \notin Forms(k) ) =>
                ( req'[p].pc = "done" /\ req'[p].res = [ kind |-> "null" ] )
          /\ ( ( StartsValidate(p) \/ EndsValidate(p) ) /\ req'[p].pc = "done" ) =>
                /\ req'[p].res.kind \in { "null", "identity" }
                /\ req'[p].err # None => req'[p].res = [ kind |-> "null" ] ]_vars

\* a key that was issued and then removed was presented, looked up without
\* a storage error, and rejected
C18_Witness ==
    \E p \in Procs, k \in issued \ Unrevoked :
      /\ req[p].op = "validateApiKey" /\ req[p].pc = "done"
      /\ req[p].apiKey = k.apiKey
      /\ req[p].err = None
      /\ req[p].res = [ kind |-> "null" ]

\* this step is a call of remove in slot p
StartsRemove(p) ==
    /\ CanStart(p)
    /\ started' = started + 1
    /\ req'[p].op = "remove"

\* C19: remove(keyId, userId) deletes the record with that id if it exists
\* and userId owns it; otherwise it throws 'API key not found or
\* unauthorized' and leaves the collection unchanged.
C19_RemoveOwnKeyOrOneError ==
    [][ \A p \in Procs :
          StartsRemove(p) =>
            LET own == { d \in apikeys : /\ d._id = req'[p].keyId
                                         /\ d.userId = req'[p].user }
            IN IF own # {}
               THEN /\ apikeys' = apikeys \ own
                    /\ req'[p].res = [ kind |-> "true" ]
               ELSE /\ apikeys' = apikeys
                    /\ req'[p].res = [ kind |-> "throw",
                                       err |-> "API key not found or unauthorized" ] ]_vars

\* the fields of a stored key document, and of a key in the answer of getAll
DocFields == { "_id", "userId", "name", "hashedKey", "createdAt", "lastUsedAt", "isActive" }
MetaFields == { "id", "name", "createdAt", "lastUsedAt", "isActive" }

\* C20: every stored key document holds the SHA-256 hash of the secret of an
\* issued key (the key without its prefix) and no key or secret in clear;
\* only the answer of generateApiKey carries a key, and the answer of getAll
\* carries neither hash nor key.
C20_OnlyHashStored ==
    /\ \A d \in apikeys :
         /\ DOMAIN d = DocFields
         /\ \E k \in issued :
              /\ d._id = k.id
              /\ d.hashedKey =
                   << "sha256" >> \o SubSeq(k.apiKey, Len(API_KEY_PREFIX) + 1, Len(k.apiKey))
         /\ \A k \in issued : d.hashedKey \notin Forms(k)
    /\ \A p \in Procs :
         req[p].res # Nil =>
           /\ req[p].res.kind = "created" <=> req[p].op = "generateApiKey"
           /\ req[p].res.kind = "list" =>
                 \A m \in req[p].res.apiKeys : DOMAIN m = MetaFields
           /\ req[p].res.kind \notin { "created", "list" } =>
                 DOMAIN req[p].res \subseteq { "kind", "userId", "keyId", "err" }

\* getAll answered with the metadata of a stored key after the key was used
C20_Witness ==
    \E p \in Procs :
      /\ req[p].op = "getAll"
      /\ \E m \in req[p].res.apiKeys : m.lastUsedAt # NeverUsed
      /\ \E d \in apikeys : d.userId = req[p].user /\ d.lastUsedAt # NeverUsed

\* every access or refresh token an Atlassian token response carried so far
PlainTokens ==
    UNION { { t.access_token, t.refresh_token } :
              t \in TokenResponses \cup { RefreshResponse(n) : n \in 0..Len(refreshLog) } }

\* a log line that carries a token, or characters of the secret of an issued key
Leaks(line) ==
    \/ "token" \in DOMAIN line /\ line.token \in PlainTokens
    \/ /\ "apiKey" \in DOMAIN line
       /\ Len(line.apiKey) > Len(API_KEY_PREFIX)
       /\ \E k \in issued : startsWith(k.apiKey, line.apiKey)

\* C21: in every state the store holds API keys only as hashes and OAuth
\* tokens only as ciphertexts, and no log line carries an access token, a
\* refresh token or a part of an issued API key that includes secret
\* characters.
C21_NoPlaintextSecret ==
    /\ \A d \in apikeys : \A k \in issued : d.hashedKey \notin Forms(k)
    /\ \A u \in Users :
         ( user[u].config # Nil /\ user[u].config.jira # Nil ) =>
            /\ user[u].config.jira.accessToken \in { Encrypt(x) : x \in PlainTokens }
            /\ user[u].config.jira.refreshToken \in { Encrypt(x) : x \in PlainTokens }
    /\ \A line \in log : ~Leaks(line)

\* C22: when findOne found a matching active record, validateApiKey returns
\* the identity of that record whatever becomes of the lastUsedAt write: the
\* answer of updateOne, success or failure, ends the call with the identity.
C22_LastUsedAtNeverFailsValidation ==
    [][ \A p \in Procs :
          EndsValidate(p) =>
            req'[p].res = [ kind |-> "identity",
                            userId |-> req[p].apiKeyDoc.userId,
                            keyId |-> req[p].apiKeyDoc._id ] ]_vars

\* ------------------------------------------------- properties: disconnect
Disconnected == [ kind |-> "json", message |-> "Jira disconnected successfully" ]

\* this step starts a disconnect request in slot p and reads the user record
StartsDisconnect(p) ==
    /\ CanStart(p)
    /\ started' = started + 1
    /\ req'[p].op = "disconnect"

\* C23: a disconnect that finds a tracker config writes the record without
\* it and answers 'Jira disconnected successfully'; a disconnect that finds
\* none (second call, never-connected user) gives the same answer at once and
\* writes nothing; a write of a disconnect that arrives when the config is
\* already gone leaves the record as it is.
C23_DisconnectIdempotent ==
    [][ \A p \in Procs :
          /\ StartsDisconnect(p) =>
               LET doc == user[req'[p].user]
               IN IF doc.config = Nil \/ doc.config.jira = Nil
                  THEN /\ req'[p].pc = "done"
                       /\ req'[p].res = Disconnected
                       /\ user' = user
                  ELSE /\ req'[p].pc = "updateDisconnected"
                       /\ user' = user
          /\ ( req[p].pc = "updateDisconnected" /\ req'[p].pc = "done" ) =>
               /\ req'[p].res = Disconnected
               /\ user'[req[p].user].config.jira = Nil
               /\ \A u \in Users : u # req[p].user => user'[u] = user[u]
               /\ user[req[p].user].config.jira = Nil => user' = user ]_vars

\* a disconnect of u2, who never connected, and a disconnect of u1 have both
\* answered; u1's record has no tracker config, u2's record is as it was
C23_Witness ==
    \E p, q \in Procs :
      /\ req[p].op = "disconnect" /\ req[p].user = "u2" /\ req[p].res = Disconnected
      /\ req[q].op = "disconnect" /\ req[q].user = "u1" /\ req[q].res = Disconnected
      /\ user["u1"].config.jira = Nil
      /\ user["u2"] = Connected["u2"]

\* ----------------------------------------------------- properties: signup
\* this step is the call of signup in slot p, up to the answer of getByEmail
StartsSignup(p) ==
    /\ CanStart(p)
    /\ started' = started + 1
    /\ req'[p].op = "signup"

WithEmail(coll, email) == { d \in coll : d.email = email }

\* C24: a signup with an email for which a record exists ends at once with
\* 'This email already taken'; it inserts nothing, so the records with that
\* email stay the ones there were (one stays one).
C24_TakenEmailRejected ==
    [][ \A p \in Procs :
          ( StartsSignup(p) /\ WithEmail(accounts, req'[p].email) # {} ) =>
             /\ req'[p].pc = "done"
             /\ req'[p].res = [ kind |-> "throw", err |-> "This email already taken" ]
             /\ accounts' = accounts ]_vars

\* a signup was refused for its email, of which there is exactly one record
C24_Witness ==
    \E p \in Procs :
      /\ req[p].op = "signup" /\ req[p].pc = "done"
      /\ req[p].res = [ kind |-> "throw", err |-> "This email already taken" ]
      /\ Cardinality(WithEmail(accounts, req[p].email)) = 1

\* C25: in every state at most one user record exists per email.
C25_EmailsUnique ==
    \A d, e \in accounts : d.email = e.email => d = e

\* ------------------------------------------- properties: the API-key route
\* this step ends requireApiKey with next(): createNHIFinding starts in slot p
StartsHandler(p) ==
    /\ req[p].pc = "requireApiKey"
    /\ req'[p].apiKeyAuth # Nil

\* this step is the answer of getById to createNHIFinding in slot p
ReadsOwner(p) ==
    /\ req[p].pc = "createNHIFinding"
    /\ req'[p].pc # "createNHIFinding"

SummaryRule == "summary is required and must be a non-empty string"

Names(details, rule) == \E i \in 1..Len(details) : details[i] = rule

\* C26: createNHIFinding with summary '' answers 400 'Validation error' with
\* the summary rule among the details; with a valid body and no tracker
\* config on the record of the key's owner it answers 400 'Configuration
\* error', and in both cases no refresh and no tracker call was made.
C26_EmptySummaryAndNotConnected ==
    [][ \A p \in Procs :
          /\ ( StartsHandler(p) /\ req[p].body.summary = Str(<< >>) ) =>
                /\ req'[p].pc = "done"
                /\ req'[p].res.status = 400
                /\ req'[p].res.error = "Validation error"
                /\ Names(req'[p].res.details, SummaryRule)
                /\ req'[p].refreshCalls = << >> /\ req'[p].trackerCalls = << >>
          /\ ( ReadsOwner(p)
                 /\ ( user[req[p].user].config = Nil
                        \/ user[req[p].user].config.jira = Nil ) ) =>
                /\ validateNHIFinding(req[p].body).isValid
                /\ req'[p].pc = "done"
                /\ req'[p].res.status = 400
                /\ req'[p].res.error = "Configuration error"
                /\ req'[p].refreshCalls = << >> /\ req'[p].trackerCalls = << >>
                /\ refreshLog' = refreshLog /\ user' = user ]_vars

\* one request was refused for its summary, one for the missing tracker
\* config of u2, the owner of its key; neither called the tracker
C26_Witness ==
    \E p, q \in Procs :
      /\ req[p].op = "createNHIFinding" /\ req[p].pc = "done"
      /\ req[p].res.status = 400 /\ req[p].res.error = "Validation error"
      /\ Names(req[p].res.details, SummaryRule)
      /\ req[q].op = "createNHIFinding" /\ req[q].pc = "done"
      /\ req[q].res.status = 400 /\ req[q].res.error = "Configuration error"
      /\ req[q].apiKeyAuth.userId = "u2"
      /\ req[p].trackerCalls = << >> /\ req[q].trackerCalls = << >>

\* ------------------------------------------------ properties: input checks
\* a field that was given (null, 0, '' and false count as not given)
Given(x) == Truthy(x)

IsString(x) == x.t = "string"

\* a string with a character other than a blank
NonBlank(x) == IsString(x) /\ \E i \in 1..Len(x.v) : x.v[i] # " "

\* the field rules of a create-finding body that data breaks
NhiBroken(data) ==
    { m \in { "projectKey is required and must be a string",
              "summary is required and must be a non-empty string",
              "description is required and must be a non-empty string",
              "issueType must be a string", "priority must be a string",
              "labels must be an array of strings" } :
        \/ m = "projectKey is required and must be a string"
             /\ ~( IsString(data.projectKey) /\ data.projectKey.v # << >> )
        \/ m = "summary is required and must be a non-empty string"
             /\ ~NonBlank(data.summary)
        \/ m = "description is required and must be a non-empty string"
             /\ ~NonBlank(data.description)
        \/ m = "issueType must be a string"
             /\ Given(data.issueType) /\ ~IsString(data.issueType)
        \/ m = "priority must be a string"
             /\ Given(data.priority) /\ ~IsString(data.priority)
        \/ m = "labels must be an array of strings"
             /\ Given(data.labels) /\ data.labels.t # "array" }

\* typeof x === 'object' (an array is one)
IsObject(x) == x.t \in { "object", "array" }

\* the field rules of a create-issue body that data breaks (one per field)
IssueBroken(data) ==
    { m \in { "project is required and must be an object",
              "project.key is required and must be a string",
              "summary is required and must be a non-empty string",
              "issuetype is required and must be an object",
              "issuetype.name or issuetype.id is required",
              "description must be a string or an object (Atlassian Document Format)",
              "priority must be an object with name or id",
              "labels must be an array of strings" } :
        \/ m = "project is required and must be an object" /\ ~IsObject(data.project)
        \/ m = "project.key is required and must be a string"
             /\ IsObject(data.project)
             /\ ~( IsString(data.project.v.key) /\ data.project.v.key.v # << >> )
        \/ m = "summary is required and must be a non-empty string"
             /\ ~NonBlank(data.summary)
        \/ m = "issuetype is required and must be an object" /\ ~IsObject(data.issuetype)
        \/ m = "issuetype.name or issuetype.id is required"
             /\ IsObject(data.issuetype)
             /\ ~Given(data.issuetype.v.name) /\ ~Given(data.issuetype.v.id)
        \/ m = "description must be a string or an object (Atlassian Document Format)"
             /\ Given(data.description)
             /\ ~IsString(data.description) /\ ~IsObject(data.description)
        \/ m = "priority must be an object with name or id"
             /\ Given(data.priority) /\ ~IsObject(data.priority)
        \/ m = "labels must be an array of strings"
             /\ Given(data.labels) /\ data.labels.t # "array" }

Listed(details) == { details[i] : i \in 1..Len(details) }

\* this step is the arrival of a create-issue request in slot p
StartsCreateIssue(p) ==
    /\ CanStart(p)
    /\ started' = started + 1
    /\ req'[p].op = "createIssue"

\* the handler in slot p has answered 400 'Validation error' with exactly the
\* rules in broken, each once, and has neither read a user record nor called
\* the refresh endpoint or the tracker
RejectedAtOnce(p, broken) ==
    /\ req'[p].pc = "done"
    /\ req'[p].res.status = 400
    /\ req'[p].res.error = "Validation error"
    /\ Listed(req'[p].res.details) = broken
    /\ Len(req'[p].res.details) = Cardinality(broken)
    /\ req'[p].refreshCalls = << >> /\ req'[p].trackerCalls = << >>
    /\ user' = user /\ refreshLog' = refreshLog

SessionError == ErrorUrl("Invalid or expired session. Please try connecting again.")

\* why the call of validateAndDeleteState made in this step finds nothing
NoneStored(p) == DocsOf(VUser(p)) = {}

Mismatch(p) == DocsOf(VUser(p)) # {} /\ DocsWith(VUser(p), VState(p)) = {}

Expired(p) ==
    /\ DocsWith(VUser(p), VState(p)) # {}
    /\ \A d \in DocsWith(VUser(p), VState(p)) : d.expiresAt <= now

\* C28: a callback whose state check fails because no state is stored for
\* the user, because the stored state is another one, or because the stored
\* state has expired, ends with one and the same redirect, and the ledger is
\* as it was; the three causes are all there are.
C28_OneAnswerForEveryCause ==
    [][ \A p \in Procs :
          Validates(p) =>
            /\ ~req'[p].isValidState <=> ( NoneStored(p) \/ Mismatch(p) \/ Expired(p) )
            /\ ~req'[p].isValidState =>
                 /\ req'[p].pc = "done"
                 /\ req'[p].res = SessionError
                 /\ oauth_states' = oauth_states ]_vars

\* two callbacks of one user were refused with the same redirect: one
\* presented the stored state after it had run out, the other a state that
\* is not stored
C28_Witness ==
    \E p, q \in Procs : \E d \in oauth_states :
      /\ p # q
      /\ Validated(p) /\ Validated(q)
      /\ ~req[p].isValidState /\ ~req[q].isValidState
      /\ req[p].user = req[q].user
      /\ d.userId = req[p].user /\ d.state = req[p].state /\ d.expiresAt <= now
      /\ DocsWith(req[q].user, req[q].state) = {}
      /\ req[p].res = SessionError /\ req[q].res = SessionError

\* the requests requireApiKey has refused
Refused == { p \in Procs : /\ req[p].op = "createNHIFinding" /\ req[p].pc = "done"
                           /\ req[p].res.status = 401 }

\* C29: whatever check of requireApiKey failed (no header, another scheme,
\* no key after 'Bearer ', unknown key, revoked key), the refused request got
\* the same response: any two refused requests have equal responses.
C29_OneAnswerForEveryFailedCheck ==
    \A p, q \in Refused : req[p].res = req[q].res

\* ---------------------------------------------- properties: session tokens
\* this step is a call of verifyToken in slot p
StartsVerify(p) ==
    /\ CanStart(p)
    /\ started' = started + 1
    /\ req'[p].op = "verifyToken"

\* k was made by getLoginToken and is as it was made
ServerSigned(k) == k # Nil /\ k.sig = Sign(k.payload, JWT_SECRET)

\* the identity of the user k was made for
IdentityOf(k) ==
    [ kind |-> "identity", _id |-> k.payload._id, name |-> k.payload.name,
      email |-> k.payload.email ]

NotAuthenticated == [ kind |-> "null" ]

\* C30 as stated: verifyToken returns the user's _id, name and email for a
\* token of getLoginToken while less than 24 hours have elapsed since issue,
\* null once 24 hours have elapsed and for any token not signed with the
\* server secret, and it never throws.
C30_ValidFor24Hours ==
    [][ \A p \in Procs :
          StartsVerify(p) =>
            /\ req'[p].pc = "done"
            /\ req'[p].res =
                 IF /\ ServerSigned(req'[p].token)
                    /\ now - req'[p].token.issuedAt < DayMs
                 THEN IdentityOf(req'[p].token)
                 ELSE NotAuthenticated ]_vars

\* C30 amended: verifyToken returns the user's _id, name and email for a
\* token of getLoginToken while the clock, in whole seconds, is less than the
\* second of issue plus 86400, and null from then on; so it returns them
\* whenever at most 24 hours less one second have elapsed and null whenever
\* 24 hours have elapsed; it returns null for any token not signed with the
\* server secret, and it never throws.
C30_ValidFor86400ClockSeconds ==
    [][ \A p \in Procs :
          StartsVerify(p) =>
            LET k == req'[p].token
            IN /\ req'[p].pc = "done"
               /\ req'[p].res =
                    IF /\ ServerSigned(k)
                       /\ (now \div 1000) < (k.issuedAt \div 1000) + DaySeconds
                    THEN IdentityOf(k)
                    ELSE NotAuthenticated
               /\ ServerSigned(k) =>
                    /\ \E u \in LoginUsers :
                         /\ u._id = k.payload._id /\ u.name = k.payload.name
                         /\ u.email = k.payload.email
                    /\ now - k.issuedAt <= DayMs - 1000 => req'[p].res = IdentityOf(k)
                    /\ now - k.issuedAt >= DayMs => req'[p].res = NotAuthenticated ]_vars

\* a token was verified one millisecond before its 24 hours were over and
\* gave the identity of its user
C30_Witness ==
    \E p \in Procs :
      /\ req[p].op = "verifyToken" /\ req[p].pc = "done"
      /\ ServerSigned(req[p].token)
      /\ now - req[p].token.issuedAt = DayMs - 1
      /\ req[p].res = IdentityOf(req[p].token)

\* C31: whatever token set is encrypted at whatever time, decrypting the
\* result gives back the access token and the refresh token unchanged, and
\* an expiry of the time of encryption plus 1000 times expires_in
C31_RoundTrip ==
    [][ \A p \in Procs :
          ( CanStart(p) /\ started' = started + 1 /\ req'[p].op = "roundTrip" )
          => /\ req'[p].res.accessToken = req'[p].tokens.access_token
             /\ req'[p].res.refreshToken = req'[p].tokens.refresh_token
             /\ req'[p].res.expiresAt = now + (1000 * req'[p].tokens.expires_in) ]_vars

\* a token set with a lifetime of an hour went through the codec after the
\* clock had advanced
C31_Witness ==
    \E p \in Procs :
        /\ req[p].op = "roundTrip"
        /\ req[p].tokens.expires_in = 3600
        /\ req[p].tokens.access_token = "AT2"
        /\ req[p].res.expiresAt = TickMs + 3600000

\* the stored ciphertexts are what this process's secret produces
Readable(jira) ==
    /\ jira.accessToken = Cryptr(secret1, jira.accessToken[2])
    /\ jira.refreshToken = Cryptr(secret1, jira.refreshToken[2])

\* request p takes the step in which its handler calls decryptTokens
Decrypts(p) ==
    \/ CanStart(p) /\ started' = started + 1 /\ req'[p].op = "getProjects"
    \/ /\ req[p].pc \in { "createNHIFinding", "getSpecificUser", "findUserWithJira" }
       /\ req'[p].pc # req[p].pc
       /\ req'[p].user # None

\* the caller of request r got an error: a 500 answer, or for the cron job,
\* which has no caller, the error in the log
GotError(r, lines) ==
    IF r.op = "scheduledBlogDigest"
    THEN [ level |-> "error", line |-> "Scheduled blog digest failed:",
           err |-> << DecryptError >> ] \in lines
    ELSE r.res # Nil /\ r.res.status = 500

\* C32: when the stored config of the user a handler works for does not
\* decrypt (changed bytes, or another secret), decryptTokens throws, and the
\* handler ends in that very step with an error for its caller, having called
\* neither the refresh endpoint nor the tracker and written nothing
C32_UnreadableConfigIsAnError ==
    [][ \A p \in Procs :
          ( /\ Decrypts(p)
            /\ user[req'[p].user].config # Nil
            /\ user[req'[p].user].config.jira # Nil
            /\ ~Readable(user[req'[p].user].config.jira) )
          => /\ decryptTokens(user[req'[p].user].config.jira) = Throw(DecryptError)
             /\ req'[p].pc = "done"
             /\ GotError(req'[p], log')
             /\ req'[p].refreshCalls = << >>
             /\ req'[p].trackerCalls = << >>
             /\ refreshLog' = refreshLog
             /\ user' = user ]_vars

\* the API-key route answered 500 for a user whose refresh token ciphertext
\* had changed
C32_Witness ==
    \E p \in Procs :
        /\ req[p].op = "createNHIFinding"
        /\ req[p].pc = "done"
        /\ req[p].res.status = 500
        /\ ~Readable(user[req[p].user].config.jira)
        /\ user[req[p].user].config.jira.refreshToken[2] = "garbage"

\* C33: once a disconnect request of user u has been answered (no callback
\* runs in this specification), u has no tracker config, whatever refresh
\* read u's record before the disconnect and writes it back afterwards
C33_DisconnectSurvivesRefresh ==
    \A p \in Procs :
        ( req[p].op = "disconnect" /\ req[p].pc = "done" )
        => \/ user[req[p].user].config = Nil
           \/ user[req[p].user].config.jira = Nil

\* this step is the arrival of a callback request in slot p
StartsCallback(p) ==
    /\ CanStart(p)
    /\ started' = started + 1
    /\ req'[p].op = "handleOAuthCallback"

\* slot q holds an answered callback of user u that came without a code
CodelessDone(q, u) ==
    /\ req[q].op = "handleOAuthCallback"
    /\ req[q].user = u
    /\ req[q].code = None
    /\ req[q].pc = "done"

\* C34: a callback without a code is answered without any change to the
\* ledger, and a callback of the same user that comes after it with a code
\* and a stored state that has not run out is accepted
C34_CodelessCallbackLeavesLedger ==
    [][ \A p \in Procs :
          /\ ( StartsCallback(p) /\ req'[p].code = None )
             => /\ oauth_states' = oauth_states
                /\ accepted' = accepted
                /\ removed' = removed
                /\ req'[p].pc = "done"
                /\ req'[p].res = ErrorUrl("Authorization code missing")
          /\ ( /\ StartsCallback(p)
               /\ req'[p].code # None
               /\ \E q \in Procs : CodelessDone(q, req'[p].user)
               /\ \E d \in DocsWith(req'[p].user, req'[p].state) : d.expiresAt > now )
             => /\ req'[p].isValidState
                /\ req'[p].pc = "exchangeCodeForTokens" ]_vars

\* a callback without a code was answered while the state the user was sent
\* is stored and has not run out
C34_Witness ==
    \E q \in Procs, u \in Users :
        /\ CodelessDone(q, u)
        /\ \E d \in DocsOf(u) : d.expiresAt > now /\ << u, d.state >> \in authUrls

\* slot q holds a callback of user u whose state s was accepted and whose
\* code exchange or workspace resolution then failed
FailedAfterAccept(q, u, s) ==
    /\ req[q].op = "handleOAuthCallback"
    /\ req[q].pc = "done"
    /\ req[q].isValidState
    /\ req[q].user = u
    /\ req[q].state = s
    /\ req[q].res \in { ErrorUrl("Failed to exchange authorization code"),
                        ErrorUrl("Failed to get Jira cloud ID") }

\* this step is the failure of the code exchange or of the workspace
\* resolution of callback p
FailsAfterAccept(p) ==
    /\ req[p].pc \in { "exchangeCodeForTokens", "getCloudId" }
    /\ req'[p].pc = "done"

Stripped(k) ==
    IF Len(k) >= 3 /\ k[1] = "i" /\ k[2] = "h" /\ k[3] = "_"
    THEN SubSeq(k, 4, Len(k))
    ELSE k

\* the active records whose hashedKey is the SHA-256 of k so stripped
Matches(k) == { d \in apikeys : d.isActive /\ d.hashedKey = hashApiKey(Stripped(k)) }

\* C36: a validateApiKey(k) call whose storage calls succeed returns null at
\* once when no active record has the SHA-256 of k without one leading 'ih_'
\* as its hashedKey; otherwise it goes on with such a record and returns that
\* record's userId and id; an issued key so finds its own record with and
\* without the prefix
C36_IdentityIffActiveMatch ==
    [][ \A p \in Procs :
          /\ ( StartsValidate(p) /\ req'[p].err = None )
             => IF Matches(req'[p].apiKey) = {}
                THEN req'[p].pc = "done" /\ req'[p].res = [ kind |-> "null" ]
                ELSE /\ req'[p].pc = "updateOne"
                     /\ req'[p].apiKeyDoc \in Matches(req'[p].apiKey)
                     /\ \A k \in Unrevoked :
                          req'[p].apiKey \in Forms(k) => req'[p].apiKeyDoc._id = k.id
          /\ ( EndsValidate(p) /\ req'[p].err = None )
             => /\ req'[p].res = [ kind |-> "identity",
                                   userId |-> req[p].apiKeyDoc.userId,
                                   keyId |-> req[p].apiKeyDoc._id ]
                /\ req[p].apiKeyDoc.isActive
                /\ req[p].apiKeyDoc.hashedKey = hashApiKey(Stripped(req[p].apiKey)) ]_vars

\* the second user's key was presented without its prefix and validated as
\* that user's, while the first user's key was stored as well
C36_Witness ==
    \E p \in Procs, k \in Unrevoked :
        /\ Cardinality(apikeys) = 2
        /\ k.id = 2
        /\ req[p].op = "validateApiKey" /\ req[p].pc = "done"
        /\ req[p].apiKey = Stripped(k.apiKey)
        /\ req[p].apiKey # k.apiKey
        /\ req[p].res = Identity(k)

\* this step is a getAll call in slot p
StartsGetAll(p) ==
    /\ CanStart(p)
    /\ started' = started + 1
    /\ req'[p].op = "getAll"

\* this step is a remove call by the owner of the issued key k with k's id
RemovesOwn(k) ==
    \E p \in Procs : StartsRemove(p) /\ req'[p].keyId = k.id /\ req'[p].user = k.userId

\* C37: getAll(userId) returns one entry of metadata for each key userId
\* issued whose record is stored, and nothing else; and the record of an
\* issued key stays stored from generateApiKey on until its owner calls remove
\* with its id, whatever other users generate or remove
C37_GetAllIsOwnUnremovedKeys ==
    [][ /\ \A p \in Procs :
             StartsGetAll(p) =>
               LET own == { k \in Unrevoked : k.userId = req'[p].user }
                   list == req'[p].res.apiKeys
               IN /\ req'[p].res.kind = "list"
                  /\ { m.id : m \in list } = { k.id : k \in own }
                  /\ Cardinality(list) = Cardinality(own)
                  /\ \A m \in list :
                       /\ DOMAIN m = { "id", "name", "createdAt", "lastUsedAt", "isActive" }
                       /\ \E d \in apikeys :
                            /\ d._id = m.id /\ d.userId = req'[p].user
                            /\ d.name = m.name /\ d.createdAt = m.createdAt
                            /\ d.lastUsedAt = m.lastUsedAt /\ d.isActive = m.isActive
        /\ \A k \in issued :
             LET stored(coll) == \E d \in coll : d._id = k.id /\ d.userId = k.userId
             IN /\ stored(apikeys') => stored(apikeys)
                /\ ( stored(apikeys) /\ ~RemovesOwn(k) ) => stored(apikeys')
        /\ \A k \in issued' \ issued :
             /\ \E d \in apikeys' \ apikeys : d._id = k.id /\ d.userId = k.userId
             /\ \E p \in Procs : req'[p].op = "generateApiKey" /\ req'[p].user = k.userId
      ]_vars

\* two users hold a key each and the first user's list shows the one key of
\* that user
C37_Witness ==
    \E p \in Procs :
        /\ req[p].op = "getAll" /\ req[p].pc = "done"
        /\ req[p].user = "u1"
        /\ Cardinality(apikeys) = 2
        /\ \E d \in apikeys : d.userId = "u2"
        /\ Cardinality(req[p].res.apiKeys) = 1

\* header carries the issued key k after 'Bearer ', with or without 'ih_'
Bears(authHeader, k) == \E f \in Forms(k) : authHeader = Bearer \o f

\* this step is the arrival of a POST /api/nhi-findings request in slot p
StartsNhi(p) ==
    /\ CanStart(p)
    /\ started' = started + 1
    /\ req'[p].op = "createNHIFinding"

\* request r ended with 401 before the handler: nothing was attached to it and
\* it called neither the refresh endpoint nor the tracker
TurnedAway(r) ==
    /\ r.pc = "done"
    /\ r.res.status = 401
    /\ r.apiKeyAuth = Nil
    /\ r.refreshCalls = << >> /\ r.trackerCalls = << >>

\* the tracker config stored for the owner of the key of request r
OwnerJira(r) == user[r.apiKeyAuth.userId].config.jira

\* C38: a request goes past the key lookup only with a header that carries a
\* stored issued key, and the handler starts only with that key's owner
\* attached; every other request ends with 401 and changes no user record;
\* the handler reads the record of the key's owner, sends the refresh
\* endpoint and the tracker that record's tokens and workspace, and writes that
\* record alone; no other step changes a user record or calls the refresh
\* endpoint
C38_OnlyTheKeyOwnersConfig ==
    [][ /\ \A p \in Procs :
             /\ StartsNhi(p) =>
                  IF req'[p].pc = "done"
                  THEN TurnedAway(req'[p]) /\ user' = user /\ refreshLog' = refreshLog
                  ELSE \E k \in Unrevoked :
                          /\ Bears(req'[p].authHeader, k)
                          /\ req'[p].apiKeyDoc._id = k.id
                          /\ req'[p].apiKeyDoc.userId = k.userId
                          /\ req'[p].apiKeyAuth = Nil
             /\ ( req[p].pc = "requireApiKey" /\ req'[p].pc # "requireApiKey" ) =>
                  IF req'[p].apiKeyAuth = Nil
                  THEN TurnedAway(req'[p]) /\ user' = user /\ refreshLog' = refreshLog
                  ELSE \E k \in issued :
                          /\ Bears(req[p].authHeader, k)
                          /\ req'[p].apiKeyAuth = [ userId |-> k.userId, keyId |-> k.id ]
                          /\ req'[p].user = k.userId
             /\ ( ReadsOwner(p) /\ req'[p].pc # "done" ) =>
                  /\ req'[p].jiraConfig = OwnerJira(req[p])
                  /\ req'[p].pc = "nhiRefreshAccessToken" =>
                       /\ req'[p].refreshCalls = << Decrypt(OwnerJira(req[p]).refreshToken) >>
                       /\ req'[p].trackerCalls = << >>
                  /\ req'[p].pc = "nhiCreateIssue" =>
                       /\ req'[p].refreshCalls = << >>
                       /\ Len(req'[p].trackerCalls) = 1
                       /\ req'[p].trackerCalls[1].accessToken =
                             Decrypt(OwnerJira(req[p]).accessToken)
                       /\ req'[p].trackerCalls[1].cloudId = OwnerJira(req[p]).cloudId
             /\ ( req[p].pc = "nhiUpdate" /\ req'[p].pc # "nhiUpdate" ) =>
                  /\ \A u \in Users \ { req[p].apiKeyAuth.userId } : user'[u] = user[u]
                  /\ user'[req[p].apiKeyAuth.userId].config.jira.cloudId =
                        req[p].jiraConfig.cloudId
                  /\ Len(req'[p].trackerCalls) = 1
                  /\ req'[p].trackerCalls[1].accessToken = req[p].tokens.access_token
                  /\ req'[p].trackerCalls[1].cloudId = req[p].jiraConfig.cloudId
             /\ req'[p].pc \in { "createNHIFinding", "nhiRefreshAccessToken",
                                 "nhiUpdate", "nhiCreateIssue" } =>
                  /\ req'[p].apiKeyAuth # Nil
                  /\ req'[p].user = req'[p].apiKeyAuth.userId
        /\ user' # user =>
             \E p \in Procs : req[p].pc = "nhiUpdate" /\ req[p].apiKeyAuth # Nil
        /\ refreshLog' # refreshLog =>
             \E p \in Procs :
                /\ req[p].pc = "nhiRefreshAccessToken"
                /\ refreshLog'[Len(refreshLog')].refresh_token =
                      Decrypt(req[p].jiraConfig.refreshToken)
      ]_vars

\* the handler has called the tracker with the token of u1 for a request that
\* came with u1's key, while a request without a stored key was turned away
C38_Witness ==
    \E p, q \in Procs :
        /\ req[p].op = "createNHIFinding" /\ req[p].pc = "nhiCreateIssue"
        /\ req[p].apiKeyAuth.userId = "u1"
        /\ \E k \in issued : k.userId = "u1" /\ Bears(req[p].authHeader, k)
        /\ req[p].trackerCalls[1].accessToken = Decrypt(user["u1"].config.jira.accessToken)
        /\ req[q].op = "createNHIFinding" /\ TurnedAway(req[q])

\* the positions of the three implementations that mean the same: waiting for
\* the refresh endpoint, for the write of the refreshed config, and for the
\* first tracker call made with the access token
RefreshPc == { "refreshAccessToken", "nhiRefreshAccessToken", "blogRefreshAccessToken" }
PersistPc == { "updateRefreshed", "nhiUpdate", "blogUpdate" }
CallPc == { "getProjects", "nhiCreateIssue", "blogGetProjects" }

\* the tracker config to persist after a refresh of the stored config jira
\* that was answered with newTokens at time t
RefreshedConfig(jira, newTokens, t) ==
    [ cloudId |-> jira.cloudId, siteUrl |-> jira.siteUrl,
      connectedAt |-> jira.connectedAt,
      accessToken |-> Cryptr(secret1, newTokens.access_token),
      refreshToken |-> Cryptr(secret1, newTokens.refresh_token),
      expiresAt |-> t + (1000 * newTokens.expires_in) ]

\* C39: whichever of the three implementations runs (getValidJiraToken,
\* the copy in createNHIFinding, getValidAccessToken), what it does is the
\* same function of the stored config, the clock and the refresh result: it
\* refreshes exactly when the clock has reached expiresAt; without a refresh
\* it goes on with the stored access token and writes nothing; with one it
\* sends the stored refresh token, persists the stored config with the three
\* token fields replaced by the encrypted result, and goes on with the new
\* access token
C39_ThreeLifecyclesAgree ==
    [][ \A p \in Procs :
          /\ ( /\ Decrypts(p)
               /\ user[req'[p].user].config # Nil
               /\ user[req'[p].user].config.jira # Nil
               /\ Readable(user[req'[p].user].config.jira) )
             => LET jira == user[req'[p].user].config.jira
                IN /\ user' = user
                   /\ refreshLog' = refreshLog
                   /\ req'[p].jiraConfig = jira
                   /\ IF now >= jira.expiresAt
                      THEN /\ req'[p].pc \in RefreshPc
                           /\ req'[p].refreshCalls = << jira.refreshToken[2] >>
                           /\ req'[p].trackerCalls = << >>
                      ELSE /\ req'[p].pc \in CallPc
                           /\ req'[p].refreshCalls = << >>
                           /\ req'[p].currentAccessToken = jira.accessToken[2]
                           /\ Len(req'[p].trackerCalls) = 1
                           /\ req'[p].trackerCalls[1].accessToken = jira.accessToken[2]
                           /\ req'[p].trackerCalls[1].cloudId = jira.cloudId
          /\ ( /\ req[p].pc \in RefreshPc
               /\ req'[p].pc # req[p].pc
               /\ refreshLog' # refreshLog )
             => LET newTokens == refreshLog'[Len(refreshLog')].response
                IN /\ req'[p].pc \in PersistPc
                   /\ req'[p].tokens = newTokens
                   /\ req'[p].updatedUser.config.jira =
                         RefreshedConfig(req[p].jiraConfig, newTokens, now)
                   /\ user' = user
          /\ ( req[p].pc \in PersistPc /\ req'[p].pc # req[p].pc )
             => /\ user'[req[p].user].config.jira = req[p].updatedUser.config.jira
                /\ \A u \in Users \ { req[p].user } : user'[u] = user[u]
                /\ req'[p].pc \in CallPc
                /\ req'[p].currentAccessToken = req[p].tokens.access_token
                /\ Len(req'[p].trackerCalls) = 1
                /\ req'[p].trackerCalls[1].accessToken = req[p].tokens.access_token
                /\ req'[p].trackerCalls[1].cloudId = req[p].jiraConfig.cloudId ]_vars

\* the blog digest, started at the very millisecond the stored token ran out,
\* has refreshed, persisted the new config and called the tracker with the
\* new access token
C39_Witness ==
    \E p \in Procs :
        /\ req[p].op \in { "triggerBlogDigest", "scheduledBlogDigest" }
        /\ req[p].pc = "blogGetProjects"
        /\ Len(refreshLog) = 1
        /\ user["u1"].config.jira =
              RefreshedConfig(Connected["u1"].config.jira, refreshLog[1].response, TickMs)
        /\ Connected["u1"].config.jira.expiresAt = TickMs
        /\ req[p].trackerCalls[1].accessToken = refreshLog[1].response.access_token

====
